---------------------------- MODULE Spec2Model ----------------------------
(***************************************************************************)
(* A model of the EXIF reader (github.com/ZanyLeonic/exif-reader).         *)
(*                                                                         *)
(* Conventions.                                                            *)
(*  - A Go byte slice is a record [arr, len]: arr is the backing array     *)
(*    (its length is the slice's capacity), len the slice's length.  An    *)
(*    index expression s[i] panics unless 0 <= i < len; a slice            *)
(*    expression s[lo:hi] panics unless 0 <= lo <= hi <= cap.              *)
(*  - A Go string is the sequence of its code points.                      *)
(*  - A float64 is an exact fraction <<n, d>> in lowest terms, d > 0;      *)
(*    binary rounding is not modelled.                                     *)
(*  - A call that may panic returns [panic |-> TRUE] or                    *)
(*    [panic |-> FALSE, v |-> value].                                      *)
(*  - uint32 values are kept below 2^30 by the inputs, so that sums with   *)
(*    offsets stay inside TLC's integers; Go's int is 64 bits wide.        *)
(***************************************************************************)
EXTENDS Integers, Sequences, FiniteSets, TLC

VARIABLES
    \* ---- one call of a ValueExtractor accessor (section "accessors")
    accE,       \* the ValueExtractor: [Data, TiffStart, Endian]
    accEntry,   \* the IFDEntry argument
    accOff,     \* the entryOffset argument
    accOp,      \* the accessor called, "" before the call
    accRes,     \* its outcome
    \* ---- SanitizeBase64String applied twice
    b64In,      \* the input string
    b64Out,     \* <<>> / <<f(s)>> / <<f(s), f(f(s))>>
    \* ---- one call of makernotes.DetectAndParse
    mnE,        \* the ValueExtractor
    mnEntry,    \* the MakerNote IFDEntry
    mnIdx,      \* index of the parser the loop is at (1-based)
    mnLast,     \* outcome of the last Parse call
    mnRet,      \* what DetectAndParse returned
    mnPc,
    \* ---- one call of ExtractExifData
    data,       \* the input slice up to and including the EXIF block
    tail,       \* the rest of the file: its XMP packets
    pc,         \* position in ExtractExifData
    offset,     \* index of the APP1 marker
    endian,
    ifd,        \* walk state: [base, count, j] of the directory being walked
    stack,      \* the walks suspended by a nested directory
    gps,        \* locals of ExtractGPSIFD
    metadata,   \* the PhotoExifEvidence being filled
    walked,     \* metadata as the IFD walk left it
    pipe,       \* locals of the MakerNote pipeline
    ret,        \* the returned (record, error)
    \* ---- calls of a helper function on one argument
    fnArg,      \* the function and its arguments: [f |-> name, ...]
    fnOut       \* <<>> before the call, then the results of the calls made

accVars == <<accE, accEntry, accOff, accOp, accRes>>
b64Vars == <<b64In, b64Out>>
mnVars  == <<mnE, mnEntry, mnIdx, mnLast, mnRet, mnPc>>
exVars  == <<data, tail, pc, offset, endian, ifd, stack, gps, metadata,
             walked, pipe, ret>>
fnVars  == <<fnArg, fnOut>>
vars    == <<accVars, b64Vars, mnVars, exVars, fnVars>>

-----------------------------------------------------------------------------
(* Go slices, strings and numbers *)

Byte == 0..255

Min(a, b) == IF a < b THEN a ELSE b
Max(a, b) == IF a > b THEN a ELSE b

Ok(x) == [panic |-> FALSE, v |-> x]
Panic == [panic |-> TRUE]

\* make([]byte, n): n zero bytes, capacity n
MakeBytes(n) == [arr |-> [k \in 1..n |-> 0], len |-> n]
\* a slice holding exactly the bytes bs (capacity = length)
Bytes(bs) == [arr |-> bs, len |-> Len(bs)]
\* a slice of length n over the backing array bs
BytesCap(bs, n) == [arr |-> bs, len |-> n]

Cap(s) == Len(s.arr)
Content(s) == SubSeq(s.arr, 1, s.len)

\* s[i]
InIndex(s, i) == 0 <= i /\ i < s.len
At(s, i) == s.arr[i + 1]
\* s[lo:hi]
InSlice(s, lo, hi) == 0 <= lo /\ lo <= hi /\ hi <= Cap(s)
Sl(s, lo, hi) == [k \in 1..(hi - lo) |-> s.arr[lo + k]]

\* F applied to the value of e (and of e1, e2): the value is computed once,
\* however often F uses it
With(e, F(_)) == CHOOSE r \in {F(v) : v \in {e}} : TRUE
With2(e1, e2, F(_, _)) == CHOOSE r \in {F(v1, v2) : v1 \in {e1}, v2 \in {e2}} : TRUE

RECURSIVE Flatten(_)
Flatten(ss) == IF ss = <<>> THEN <<>> ELSE ss[1] \o Flatten(Tail(ss))

RECURSIVE GCD(_, _)
GCD(a, b) == IF b = 0 THEN a ELSE GCD(b, a % b)

Abs(x) == IF x < 0 THEN -x ELSE x

\* the fraction n/d, d # 0, in lowest terms with a positive denominator
Frac(n, d) ==
    LET g == GCD(Abs(n), Abs(d))
        s == IF d < 0 THEN -1 ELSE 1
    IN  <<(s * n) \div g, (s * d) \div g>>
FZero == <<0, 1>>
FNeg(x) == <<-x[1], x[2]>>
FAdd(x, y) == Frac(x[1] * y[2] + y[1] * x[2], x[2] * y[2])
FDivInt(x, k) == Frac(x[1], x[2] * k)
FLess(x, y) == x[1] * y[2] < y[1] * x[2]

\* strings.TrimRight(s, "\x00")
RECURSIVE TrimRightNul(_)
TrimRightNul(s) ==
    IF s # <<>> /\ s[Len(s)] = 0 THEN TrimRightNul(SubSeq(s, 1, Len(s) - 1))
    ELSE s

\* strings.HasPrefix
HasPrefix(s, p) == Len(s) >= Len(p) /\ SubSeq(s, 1, Len(p)) = p

\* binary.ByteOrder: Uint16 and Uint32 of a 2- or 4-byte sequence
Uint16(e, b) == IF e = "LE" THEN b[1] + 256 * b[2] ELSE b[2] + 256 * b[1]
Uint32(e, b) ==
    IF e = "LE" THEN b[1] + 256 * b[2] + 65536 * b[3] + 16777216 * b[4]
    ELSE b[4] + 256 * b[3] + 65536 * b[2] + 16777216 * b[1]
\* int32(Uint32(b)): two's complement, computed without leaving 32 bits
Int32(e, b) ==
    LET top == IF e = "LE" THEN b[4] ELSE b[1]
        inv == [k \in 1..4 |-> 255 - b[k]]
    IN  IF top < 128 THEN Uint32(e, b) ELSE -(Uint32(e, inv)) - 1

-----------------------------------------------------------------------------
(* helpers.IFDEntry and the ValueExtractor accessors *)

\* ParseIFDEntry: four slice expressions, each of which may panic
ParseIFDEntry(d, off, e) ==
    IF ~ InSlice(d, off, off + 2) \/ ~ InSlice(d, off + 8, off + 12)
    THEN Panic
    ELSE Ok([Tag         |-> Uint16(e, Sl(d, off, off + 2)),
             DataType    |-> Uint16(e, Sl(d, off + 2, off + 4)),
             Count       |-> Uint32(e, Sl(d, off + 4, off + 8)),
             ValueOffset |-> Uint32(e, Sl(d, off + 8, off + 12))])

\* (e *ValueExtractor) getString: no bounds check before either slice
getString(e, entryOffset, off, count) ==
    IF count <= 4
    THEN IF InSlice(e.Data, entryOffset + 8, entryOffset + 8 + count)
         THEN Ok(TrimRightNul(Sl(e.Data, entryOffset + 8, entryOffset + 8 + count)))
         ELSE Panic
    ELSE IF InSlice(e.Data, off, off + count)
         THEN Ok(TrimRightNul(Sl(e.Data, off, off + count)))
         ELSE Panic

\* getRational with the range test made against the capacity of Data
getRationalCap(e, off, signed) ==
    IF off < 0 \/ off + 8 > Len(e.Data.arr) THEN FZero
    ELSE LET nb == SubSeq(e.Data.arr, off + 1, off + 4)
             db == SubSeq(e.Data.arr, off + 5, off + 8)
             denominator == Uint32(e.Endian, db)
         IN  IF denominator = 0 THEN FZero
             ELSE Frac(Uint32(e.Endian, nb), denominator)

\* (e *ValueExtractor) getRational
getRational(e, off, signed) ==
    IF off < 0 \/ off + 8 > e.Data.len THEN FZero
    ELSE LET nb == Sl(e.Data, off, off + 4)
             db == Sl(e.Data, off + 4, off + 8)
             numerator   == IF signed THEN Int32(e.Endian, nb) ELSE Uint32(e.Endian, nb)
             denominator == IF signed THEN Int32(e.Endian, db) ELSE Uint32(e.Endian, db)
         IN  IF denominator = 0 THEN FZero ELSE Frac(numerator, denominator)

\* (e *ValueExtractor) getRationalParts
getRationalParts(e, off) ==
    IF off < 0 \/ off + 8 > e.Data.len THEN <<0, 0>>
    ELSE <<Uint32(e.Endian, Sl(e.Data, off, off + 4)),
           Uint32(e.Endian, Sl(e.Data, off + 4, off + 8))>>

\* (e *ValueExtractor) getGPSCoordinate
getGPSCoordinate(e, off) ==
    LET degrees == getRational(e, off, FALSE)
        minutes == getRational(e, off + 8, FALSE)
        seconds == getRational(e, off + 16, FALSE)
    IN  FAdd(degrees, FAdd(FDivInt(minutes, 60), FDivInt(seconds, 3600)))

\* GetString that reads a value only when the entry's type is ASCII (2)
GetStringTyped(e, entry, entryOffset) ==
    IF entry.DataType # 2 THEN Ok(<<>>)
    ELSE getString(e, entryOffset, e.TiffStart + entry.ValueOffset, entry.Count)

GetString(e, entry, entryOffset) ==
    getString(e, entryOffset, e.TiffStart + entry.ValueOffset, entry.Count)

GetUint32(e, entryOffset) ==
    IF entryOffset < 0 \/ entryOffset + 12 > e.Data.len THEN 0
    ELSE Uint32(e.Endian, Sl(e.Data, entryOffset + 8, entryOffset + 12))

GetUint32Array(e, entry, count) ==
    LET off == e.TiffStart + entry.ValueOffset
    IN  IF off < 0 \/ off + (count * 4) > e.Data.len THEN <<>>
        ELSE [i \in 1..count |->
                Uint32(e.Endian, Sl(e.Data, off + (i - 1) * 4, off + (i - 1) * 4 + 4))]

GetUint16(e, entryOffset) ==
    IF entryOffset < 0 \/ entryOffset + 10 > e.Data.len THEN 0
    ELSE Uint16(e.Endian, Sl(e.Data, entryOffset + 8, entryOffset + 10))

GetUint8(e, entryOffset) ==
    IF entryOffset < 0 \/ entryOffset + 8 >= e.Data.len THEN 0
    ELSE At(e.Data, entryOffset + 8)

\* GetUint8Array: the slice expression is not guarded
GetUint8Array(e, entryOffset, numSlices) ==
    IF InSlice(e.Data, entryOffset + 8, entryOffset + 8 + numSlices)
    THEN Ok(Sl(e.Data, entryOffset + 8, entryOffset + 8 + numSlices))
    ELSE Panic

GetRational(e, entry, nestedOffset, signed) ==
    getRational(e, e.TiffStart + entry.ValueOffset + nestedOffset, signed)

GetRationalParts(e, entry, nestedOffset) ==
    getRationalParts(e, e.TiffStart + entry.ValueOffset + nestedOffset)

GetGPSCoord(e, entry) == getGPSCoordinate(e, e.TiffStart + entry.ValueOffset)

\* GetByteArray: nil is the empty sequence
GetByteArray(e, entry, entryOffset) ==
    LET off == IF entry.Count <= 4 THEN entryOffset + 8
               ELSE e.TiffStart + entry.ValueOffset
    IN  IF off < 0 \/ off + entry.Count > e.Data.len THEN <<>>
        ELSE Sl(e.Data, off, off + entry.Count)

GetUserComment(e, entry, entryOffset) ==
    LET raw == GetByteArray(e, entry, entryOffset)
    IN  IF Len(raw) <= 8 THEN <<>>
        ELSE TrimRightNul(SubSeq(raw, 9, Len(raw)))

\* GetVersion: "%c.%c%c" of raw[1], raw[2], raw[3]; 46 is '.'
GetVersion(e, entry, entryOffset) ==
    IF entry.Count # 4 \/ entryOffset + 12 > e.Data.len THEN Ok(<<>>)
    ELSE IF ~ InSlice(e.Data, entryOffset + 8, entryOffset + 12) THEN Panic
    ELSE LET raw == Sl(e.Data, entryOffset + 8, entryOffset + 12)
         IN  Ok(<<raw[2], 46, raw[3], raw[4]>>)

\* GetCompositeImageCount: offset+4 is checked against len, offset < 0 is not
GetCompositeImageCount(e, entry, entryOffset) ==
    IF entry.Count < 2 THEN Ok(<<0, 0>>)
    ELSE LET off == IF entry.Count * 2 <= 4 THEN entryOffset + 8
                    ELSE e.TiffStart + entry.ValueOffset
         IN  IF off + 4 > e.Data.len THEN Ok(<<0, 0>>)
             ELSE IF ~ InSlice(e.Data, off, off + 4) THEN Panic
             ELSE Ok(<<Uint16(e.Endian, Sl(e.Data, off, off + 2)),
                       Uint16(e.Endian, Sl(e.Data, off + 2, off + 4))>>)


\* utf16.Decode: surrogate pairs combine, a lone surrogate becomes U+FFFD
RECURSIVE utf16Decode(_)
utf16Decode(u) ==
    IF u = <<>> THEN <<>>
    ELSE LET r == u[1]
         IN  IF r < 55296 \/ r >= 57344
             THEN <<r>> \o utf16Decode(Tail(u))
             ELSE IF r < 56320 /\ Len(u) >= 2 /\ u[2] >= 56320 /\ u[2] < 57344
             THEN <<(r - 55296) * 1024 + (u[2] - 56320) + 65536>>
                      \o utf16Decode(Tail(Tail(u)))
             ELSE <<65533>> \o utf16Decode(Tail(u))

\* unicode.IsSpace
IsSpace(r) ==
    \/ r \in {9, 10, 11, 12, 13, 32, 133, 160, 5760, 8232, 8233, 8239, 8287, 12288}
    \/ (r >= 8192 /\ r <= 8202)

\* strings.TrimSpace
RECURSIVE TrimSpace(_)
TrimSpace(s) ==
    IF s = <<>> THEN s
    ELSE IF IsSpace(s[1]) THEN TrimSpace(Tail(s))
    ELSE IF IsSpace(s[Len(s)]) THEN TrimSpace(SubSeq(s, 1, Len(s) - 1))
    ELSE s

\* GetUTF16LEString: the read is sized as Count bytes, always little-endian
GetUTF16LEString(e, entry, entryOffset) ==
    LET off == IF entry.Count * 2 <= 4 THEN entryOffset + 8
               ELSE e.TiffStart + entry.ValueOffset
        charCount == entry.Count \div 2
    IN  IF off < 0 \/ off + entry.Count > e.Data.len THEN <<>>
        ELSE IF charCount = 0 THEN <<>>
        ELSE LET utf16Data == [i \in 1..charCount |->
                     IF off + (i - 1) * 2 + 2 > e.Data.len THEN 0
                     ELSE Uint16("LE", Sl(e.Data, off + (i - 1) * 2, off + (i - 1) * 2 + 2))]
             IN  TrimSpace(TrimRightNul(utf16Decode(utf16Data)))

-----------------------------------------------------------------------------
(* Idle values: what a group of variables holds in a specification that     *)
(* does not use it.                                                         *)

AccIdle == /\ accE = [Data |-> Bytes(<<>>), TiffStart |-> 0, Endian |-> "LE"]
           /\ accEntry = [Tag |-> 0, DataType |-> 0, Count |-> 0, ValueOffset |-> 0]
           /\ accOff = 0
           /\ accOp = ""
           /\ accRes = Ok(0)
B64Idle == b64In = <<>> /\ b64Out = <<>>
MnIdle  == /\ mnE = [Data |-> Bytes(<<>>), TiffStart |-> 0, Endian |-> "LE"]
           /\ mnEntry = [Tag |-> 0, DataType |-> 0, Count |-> 0, ValueOffset |-> 0]
           /\ mnIdx = 0
           /\ mnLast = "none"
           /\ mnRet = "none"
           /\ mnPc = "idle"
ExIdle  == /\ data = Bytes(<<>>)
           /\ tail = "none"
           /\ pc = "idle"
           /\ offset = 0
           /\ endian = "LE"
           /\ ifd = "none"
           /\ stack = <<>>
           /\ gps = "none"
           /\ metadata = "none"
           /\ walked = "none"
           /\ pipe = "none"
           /\ ret = "none"
FnIdle  == fnArg = [f |-> ""] /\ fnOut = <<>>

-----------------------------------------------------------------------------
(* Accessor calls on small buffers: one accessor is called once with the    *)
(* extractor, entry and entry offset chosen by Init.                        *)

MaxBufLen == 16     \* buffers of 0..MaxBufLen bytes
MaxSlack  == 1      \* spare capacity behind the slice's length

\* the buffer's bytes: 1 0 0 0 2 0 0 0 3 ... ; spare capacity holds zeros
AccByte(i) == IF i % 4 = 0 THEN 1 + (i \div 4) ELSE 0
AccBuffers ==
    { BytesCap([k \in 1..(n + c) |-> IF k <= n THEN AccByte(k - 1) ELSE 0], n) :
        n \in 0..MaxBufLen, c \in {0, MaxSlack} }
AccEntryOffsets == {0, 3, 8}
AccCounts       == {0, 1, 2, 3, 4, 5, 9}
AccValueOffsets == {0, 2, 12}

InitAcc ==
    /\ accE \in [Data : AccBuffers, TiffStart : {0}, Endian : {"LE", "BE"}]
    /\ accEntry \in [Tag : {0}, DataType : {0}, Count : AccCounts,
                     ValueOffset : AccValueOffsets]
    /\ accOff \in AccEntryOffsets
    /\ accOp = ""
    /\ accRes = Ok(0)
    /\ B64Idle /\ MnIdle /\ ExIdle /\ FnIdle

AccCall(op, res) ==
    /\ accOp = ""
    /\ accOp' = op
    /\ accRes' = res
    /\ UNCHANGED <<accE, accEntry, accOff, b64Vars, mnVars, exVars, fnVars>>

CallGetString     == AccCall("GetString", GetString(accE, accEntry, accOff))
CallGetUint8      == AccCall("GetUint8", Ok(GetUint8(accE, accOff)))
CallGetUint16     == AccCall("GetUint16", Ok(GetUint16(accE, accOff)))
CallGetUint32     == AccCall("GetUint32", Ok(GetUint32(accE, accOff)))
CallGetUint8Array == AccCall("GetUint8Array", GetUint8Array(accE, accOff, 4))
CallGetUint32Array == AccCall("GetUint32Array", Ok(GetUint32Array(accE, accEntry, 2)))
CallGetRational   == \E signed \in BOOLEAN :
                        AccCall("GetRational", Ok(GetRational(accE, accEntry, 0, signed)))
CallGetRationalParts == AccCall("GetRationalParts", Ok(GetRationalParts(accE, accEntry, 0)))
CallGetGPSCoord   == AccCall("GetGPSCoord", Ok(GetGPSCoord(accE, accEntry)))
CallGetByteArray  == AccCall("GetByteArray", Ok(GetByteArray(accE, accEntry, accOff)))
CallGetUserComment == AccCall("GetUserComment", Ok(GetUserComment(accE, accEntry, accOff)))
CallGetVersion    == AccCall("GetVersion", GetVersion(accE, accEntry, accOff))
CallGetCompositeImageCount ==
    AccCall("GetCompositeImageCount", GetCompositeImageCount(accE, accEntry, accOff))
CallGetUTF16LEString ==
    AccCall("GetUTF16LEString", Ok(GetUTF16LEString(accE, accEntry, accOff)))

NextAcc ==
    \/ CallGetString
    \/ CallGetUint8
    \/ CallGetUint16
    \/ CallGetUint32
    \/ CallGetUint8Array
    \/ CallGetUint32Array
    \/ CallGetRational
    \/ CallGetRationalParts
    \/ CallGetGPSCoord
    \/ CallGetByteArray
    \/ CallGetUserComment
    \/ CallGetVersion
    \/ CallGetCompositeImageCount
    \/ CallGetUTF16LEString

SpecAcc == InitAcc /\ [][NextAcc]_vars

\* The byte range an accessor call is to read, as <<lo, hi>> (hi exclusive)
AccInline(w) == accEntry.Count * w <= 4
AccValueAt == accE.TiffStart + accEntry.ValueOffset
AccRange ==
    CASE accOp = "GetString" ->
            IF AccInline(1) THEN <<accOff + 8, accOff + 8 + accEntry.Count>>
            ELSE <<AccValueAt, AccValueAt + accEntry.Count>>
      [] accOp \in {"GetByteArray", "GetUserComment", "GetUTF16LEString"} ->
            IF AccInline(1) THEN <<accOff + 8, accOff + 8 + accEntry.Count>>
            ELSE <<AccValueAt, AccValueAt + accEntry.Count>>
      [] accOp = "GetUint8"  -> <<accOff + 8, accOff + 9>>
      [] accOp = "GetUint16" -> <<accOff + 8, accOff + 10>>
      [] accOp \in {"GetUint32", "GetUint8Array", "GetVersion"} ->
            <<accOff + 8, accOff + 12>>
      [] accOp \in {"GetUint32Array", "GetRational", "GetRationalParts"} ->
            <<AccValueAt, AccValueAt + 8>>
      [] accOp = "GetGPSCoord" -> <<AccValueAt, AccValueAt + 24>>
      [] accOp = "GetCompositeImageCount" ->
            IF AccInline(2) THEN <<accOff + 8, accOff + 12>>
            ELSE <<AccValueAt, AccValueAt + 4>>
AccOutOfRange == AccRange[2] > accE.Data.len

\* The accessor's default value: 0, the empty string, nil
AccDefault ==
    CASE accOp \in {"GetUint8", "GetUint16", "GetUint32"} -> 0
      [] accOp \in {"GetRational", "GetGPSCoord"} -> FZero
      [] accOp \in {"GetRationalParts", "GetCompositeImageCount"} -> <<0, 0>>
      [] OTHER -> <<>>

\* C4 (as claimed): an accessor call whose read range is not entirely inside
\* the buffer returns the accessor's default value and does not panic.
C4_BoundsSafety ==
    (accOp # "" /\ AccOutOfRange) => (~ accRes.panic /\ accRes.v = AccDefault)

-----------------------------------------------------------------------------
(* SanitizeBase64String *)

\* the test of the loop body: 'A'-'Z', 'a'-'z', '0'-'9', '+', '/', '='
IsBase64Rune(r) ==
    \/ (r >= 65 /\ r <= 90)
    \/ (r >= 97 /\ r <= 122)
    \/ (r >= 48 /\ r <= 57)
    \/ r = 43 \/ r = 47 \/ r = 61

\* the loop over the runes of s: kept runes are written to the builder
RECURSIVE KeepBase64(_, _)
KeepBase64(s, result) ==
    IF s = <<>> THEN result
    ELSE KeepBase64(Tail(s), IF IsBase64Rune(s[1]) THEN Append(result, s[1]) ELSE result)

\* strings.TrimRight(s, "=")
RECURSIVE TrimRightPad(_)
TrimRightPad(s) ==
    IF s # <<>> /\ s[Len(s)] = 61 THEN TrimRightPad(SubSeq(s, 1, Len(s) - 1))
    ELSE s

\* strings.Repeat("=", n)
RepeatPad(n) == [k \in 1..n |-> 61]

\* a slip: existing padding is trimmed before the invalid runes are removed
SanitizeTrimFirst(s) ==
    LET cleaned == KeepBase64(TrimRightPad(s), <<>>)
        mod == Len(cleaned) % 4
    IN  IF mod > 0 THEN cleaned \o RepeatPad(4 - mod) ELSE cleaned

\* a slip: the padding is added without the mod > 0 test
SanitizeNoGuard(s) ==
    LET cleaned == TrimRightPad(KeepBase64(s, <<>>))
    IN  cleaned \o RepeatPad(4 - (Len(cleaned) % 4))

SanitizeBase64String(s) ==
    LET cleaned == TrimRightPad(KeepBase64(s, <<>>))
        mod == Len(cleaned) % 4
    IN  IF mod > 0 THEN cleaned \o RepeatPad(4 - mod) ELSE cleaned

MaxStrLen == 4      \* input strings of 0..MaxStrLen runes
\* 'A', 'z', '/', '=', '@' (just below 'A'), space, U+FFFD
B64Runes == {65, 122, 47, 61, 64, 32, 65533}
B64Strings == UNION { [1..n -> B64Runes] : n \in 0..MaxStrLen }

InitB64 ==
    /\ b64In \in B64Strings
    /\ b64Out = <<>>
    /\ AccIdle /\ MnIdle /\ ExIdle /\ FnIdle

\* cleanBase64 := SanitizeBase64String(s)
SanitizeOnce ==
    /\ Len(b64Out) = 0
    /\ b64Out' = <<SanitizeBase64String(b64In)>>
    /\ UNCHANGED <<b64In, accVars, mnVars, exVars, fnVars>>

\* the output is sanitized again
SanitizeAgain ==
    /\ Len(b64Out) = 1
    /\ b64Out' = Append(b64Out, SanitizeBase64String(b64Out[1]))
    /\ UNCHANGED <<b64In, accVars, mnVars, exVars, fnVars>>

NextB64 == SanitizeOnce \/ SanitizeAgain

SpecB64 == InitB64 /\ [][NextB64]_vars

\* C9: sanitizing a sanitized string changes nothing.
C9_Idempotent == Len(b64Out) = 2 => b64Out[2] = b64Out[1]

\* C9's case: a string that the first pass changed (a rune removed, padding
\* replaced) has been sanitized twice.
C9_Witness ==
    /\ Len(b64Out) = 2
    /\ b64Out[1] # b64In
    /\ \E i \in 1..Len(b64In) : ~ IsBase64Rune(b64In[i])
    /\ \E i \in 1..Len(b64In) : b64In[i] = 61
    /\ b64Out[1] # <<>>

\* The string the claim describes: s without the runes outside
\* [A-Za-z0-9+/=], without trailing '=', then (4 - len % 4) % 4 times '='.
ClaimedT(s) ==
    LET kept == SelectSeq(s, LAMBDA r : r \in (65..90) \cup (97..122) \cup (48..57)
                                               \cup {43, 47, 61})
        last == IF \E i \in 1..Len(kept) : kept[i] # 61
                THEN CHOOSE i \in 1..Len(kept) :
                        kept[i] # 61 /\ \A k \in (i + 1)..Len(kept) : kept[k] = 61
                ELSE 0
    IN  SubSeq(kept, 1, last)
ClaimedSanitized(s) ==
    LET t == ClaimedT(s)
    IN  t \o [k \in 1..((4 - (Len(t) % 4)) % 4) |-> 61]

\* C10: the output is t followed by (4 - len(t) % 4) % 4 pad runes, and its
\* length is a multiple of 4.
C10_PaddingLaw ==
    Len(b64Out) >= 1 =>
        /\ b64Out[1] = ClaimedSanitized(b64In)
        /\ Len(b64Out[1]) % 4 = 0

\* C10's case: a rune was removed, trailing padding was trimmed and new
\* padding was added.
C10_Witness ==
    /\ Len(b64Out) >= 1
    /\ \E i \in 1..Len(b64In) : ~ IsBase64Rune(b64In[i])
    /\ Len(b64In) >= 2 /\ b64In[Len(b64In)] = 61 /\ b64In[Len(b64In) - 1] = 61
    /\ Len(ClaimedT(b64In)) % 4 = 1
    /\ Len(b64Out[1]) = 4

-----------------------------------------------------------------------------
(* makernotes: the Apple parser and DetectAndParse *)

\* an error value is its message; NoErr is the nil error
NoErr == "nil"

\* DetermineEndianess(data, offset): data[offset+10] is indexed first, and
\* data[offset+11] only when the first byte is 'I' (73) or 'M' (77)
DetermineEndianess(d, off) ==
    IF ~ InIndex(d, off + 10) THEN Panic
    ELSE IF At(d, off + 10) \notin {73, 77}
    THEN Ok([endian |-> "none", err |-> "unsupported byte order"])
    ELSE IF ~ InIndex(d, off + 11) THEN Panic
    ELSE IF At(d, off + 11) # At(d, off + 10)
    THEN Ok([endian |-> "none", err |-> "unsupported byte order"])
    ELSE Ok([endian |-> IF At(d, off + 10) = 73 THEN "LE" ELSE "BE",
             err |-> NoErr])

\* "Apple iOS\x00\x00\x01"
ApplePrefix == <<65, 112, 112, 108, 101, 32, 105, 79, 83, 0, 0, 1>>

\* int32(mnHelper.GetUint32(entryOffset)), from the four bytes
GetUint32AsInt32(e, entryOffset) ==
    IF entryOffset < 0 \/ entryOffset + 12 > e.Data.len THEN 0
    ELSE Int32(e.Endian, Sl(e.Data, entryOffset + 8, entryOffset + 12))

\* the Apple tags whose value is int32(GetUint32), GetUint32, GetString and
\* a signed GetRational
AppleInt32Tags == (1 :> "MakerNoteVersion") @@ (15 :> "OISMode")
    @@ (25 :> "ImageProcessingFlags") @@ (31 :> "PhotosAppFeatureFlags")
    @@ (37 :> "SceneFlags") @@ (45 :> "ColorTemperature")
    @@ (47 :> "FocusPosition") @@ (56 :> "AFMeasuredDepth")
    @@ (61 :> "AFConfidence")
AppleBoolTags == (4 :> "AEStable") @@ (7 :> "AFStable")
AppleUint32Tags == (5 :> "AETarget") @@ (6 :> "AEAverage")
AppleStringTags == (11 :> "BurstUUID") @@ (17 :> "ContentIdentifier")
    @@ (21 :> "ImageUniqueID") @@ (26 :> "QualityHint")
    @@ (32 :> "ImageCaptureRequestID") @@ (43 :> "PhotoIdentifier")
AppleRationalTags == (29 :> "LuminanceNoiseAmplitude") @@ (33 :> "HDRHeadroom")
    @@ (39 :> "SignalToNoiseRatio") @@ (48 :> "HDRGain")

Set(key, val) == Ok([set |-> TRUE, key |-> key, val |-> val])
Skip == Ok([set |-> FALSE])

\* the switch of the entry loop: the map entry one IFD entry writes.
\* A formatted string is kept as the tuple of the value(s) it prints.
AppleTag(h, entry, entryOffset) ==
    LET t == entry.Tag
        u == GetUint32(h, entryOffset)
        i == GetUint32AsInt32(h, entryOffset)
    IN  IF t \in DOMAIN AppleInt32Tags THEN Set(AppleInt32Tags[t], i)
        ELSE IF t \in DOMAIN AppleBoolTags THEN Set(AppleBoolTags[t], u = 1)
        ELSE IF t \in DOMAIN AppleUint32Tags THEN Set(AppleUint32Tags[t], u)
        ELSE IF t \in DOMAIN AppleStringTags
        THEN LET str == GetString(h, entry, entryOffset)
             IN  IF str.panic THEN Panic ELSE Set(AppleStringTags[t], str.v)
        ELSE IF t \in DOMAIN AppleRationalTags
        THEN Set(AppleRationalTags[t], GetRational(h, entry, 0, TRUE))
        ELSE IF t = 8
        THEN Set("AccelerationVector", <<GetRational(h, entry, 0, TRUE),
                                         GetRational(h, entry, 8, TRUE),
                                         GetRational(h, entry, 16, TRUE)>>)
        ELSE IF t = 10
        THEN Set("HDRImageType", CASE u = 3 -> "HDR Image"
                                   [] u = 4 -> "Original Image"
                                   [] OTHER -> "Unknown")
        ELSE IF t = 12
        THEN Set("FocusDistanceRange", <<GetRational(h, entry, 0, TRUE),
                                         GetRational(h, entry, 8, TRUE)>>)
        ELSE IF t = 20
        THEN Set("ImageCaptureType", CASE i = 1 -> "ProRAW"
                                       [] i = 2 -> "Portrait"
                                       [] i = 10 -> "Photo"
                                       [] i = 11 -> "Manual Focus"
                                       [] i = 12 -> "Scene"
                                       [] OTHER -> "Unknown Value")
        ELSE IF t = 35
        THEN LET values == GetUint32Array(h, entry, 2)
                 off == h.TiffStart + entry.ValueOffset
                 pb == Sl(h.Data, off + 4, off + 8)
                 top == IF h.Endian = "LE" THEN pb[4] ELSE pb[1]
             IN  IF Len(values) # 2 THEN Skip
                 ELSE Set("AFPerformance",
                          <<Int32(h.Endian, Sl(h.Data, off, off + 4)),
                            top \div 16,
                            values[2] % 268435456>>)
        ELSE IF t = 46
        THEN Set("CameraType", CASE i = 0 -> "Back Wide Angle"
                                 [] i = 1 -> "Back Normal"
                                 [] i = 6 -> "Front"
                                 [] OTHER -> "Unknown")
        ELSE Skip

\* the entry loop of AppleParser.Parse, from entry j on
RECURSIVE AppleEntries(_, _, _, _, _)
AppleEntries(h, entriesStart, entryCount, j, parsed) ==
    IF j >= entryCount THEN Ok(parsed)
    ELSE LET entryOffset == entriesStart + (j * 12)
             pe == ParseIFDEntry(h.Data, entryOffset, h.Endian)
         IN  IF pe.panic THEN Panic
             ELSE LET w == AppleTag(h, pe.v, entryOffset)
                  IN  IF w.panic THEN Panic
                      ELSE AppleEntries(h, entriesStart, entryCount, j + 1,
                               IF w.v.set THEN (w.v.key :> w.v.val) @@ parsed
                               ELSE parsed)

\* the entry count as declared, with no adjustment
AppleEntryCountDeclared(raw, mnEndian) ==
    Uint16(mnEndian, Sl(raw, 14, 16))

\* the entry count AppleParser.Parse walks: the declared count, clamped to
\* the entries the byte range holds
AppleEntryCount(raw, mnEndian) ==
    LET mnFirstIfd == 14
        declared == Uint16(mnEndian, Sl(raw, mnFirstIfd, mnFirstIfd + 2))
        entriesStart == mnFirstIfd + 2
    IN  IF entriesStart + declared * 12 > raw.len
        THEN (raw.len - entriesStart) \div 12
        ELSE declared

\* (p *AppleParser) Parse on the MakerNote bytes raw; entries is the number
\* of iterations its entry loop made
AppleParseRaw(raw) ==
    LET none == [nilMap |-> TRUE, parsed |-> <<>>, entries |-> 0]
    IN  IF raw.len < 22
        THEN Ok(none @@ [err |-> "apple makernote too short"])
        ELSE IF Sl(raw, 0, 12) # ApplePrefix
        THEN Ok(none @@ [err |-> "incorrect prefix, expected Apple iOS"])
        ELSE LET de == DetermineEndianess(raw, 2)
             IN  IF de.panic THEN Panic
                 ELSE IF de.v.err # NoErr THEN Ok(none @@ [err |-> de.v.err])
                 ELSE IF 14 + 2 > raw.len
                 THEN Ok(none @@ [err |-> "IFD position out of bounds"])
                 ELSE LET mnHelper == [Data |-> raw, TiffStart |-> 0,
                                       Endian |-> de.v.endian]
                          loop == AppleEntries(mnHelper, 16,
                                      AppleEntryCount(raw, de.v.endian), 0, <<>>)
                      IN  IF loop.panic THEN Panic
                          ELSE Ok([nilMap |-> FALSE, parsed |-> loop.v,
                                   err |-> NoErr,
                                   entries |-> AppleEntryCount(raw, de.v.endian)])

\* (p *AppleParser) Parse: [nilMap, parsed, err], or a panic
AppleParse(e, entry) ==
    With(Bytes(GetByteArray(e, entry, e.TiffStart + entry.ValueOffset)), AppleParseRaw)

\* parsers := []Parser{&AppleParser{}}
Parsers == <<"Apple">>
Manufacturer(p) == p
Parse(p, e, entry) == AppleParse(e, entry)

\* the loop of DetectAndParse from parser i on; tried counts the parsers
\* whose Parse was called, line is the line of the return statement taken
RECURSIVE DetectAndParseFrom(_, _, _)
DetectAndParseFrom(e, entry, i) ==
    IF i > Len(Parsers)
    THEN Ok([manufacturer |-> "Unknown", nilMap |-> TRUE, parsed |-> <<>>,
             err |-> "cannot parse makernote, corrupted or unsupported",
             tried |-> i - 1, line |-> 26, entries |-> 0])
    ELSE LET r == Parse(Parsers[i], e, entry)
         IN  IF r.panic THEN Panic
             ELSE IF r.v.err = NoErr /\ ~ r.v.nilMap
             THEN Ok([manufacturer |-> Manufacturer(Parsers[i]), nilMap |-> FALSE,
                      parsed |-> r.v.parsed, err |-> NoErr, tried |-> i,
                      line |-> 21, entries |-> r.v.entries])
             ELSE IF r.v.err # NoErr
             THEN Ok([manufacturer |-> Manufacturer(Parsers[i]), nilMap |-> TRUE,
                      parsed |-> <<>>, err |-> r.v.err, tried |-> i, line |-> 23,
                      entries |-> 0])
             ELSE DetectAndParseFrom(e, entry, i + 1)

DetectAndParse(e, entry) == DetectAndParseFrom(e, entry, 1)

-----------------------------------------------------------------------------
(* 32-bit words as sequences of 32 bits, most significant first: TLC's     *)
(* integers stop at 2^31 - 1.                                              *)

\* a function on 1..n as a tuple
Tuple(f) == <<>> \o f

\* the n-bit representation of v, 0 <= v < 2^n, n <= 30
Bits(n, v) == Tuple([k \in 1..n |-> (v \div (2 ^ (n - k))) % 2])
RECURSIVE Val(_)
Val(b) == IF b = <<>> THEN 0 ELSE 2 * Val(SubSeq(b, 1, Len(b) - 1)) + b[Len(b)]
\* the word whose halves are hi16 and lo16
W32(hi16, lo16) == Bits(16, hi16) \o Bits(16, lo16)

Xor(a, b) == With2(a, b, LAMBDA x, y : Tuple([k \in 1..Len(x) |-> (x[k] + y[k]) % 2]))
Or(a, b) ==
    With2(a, b, LAMBDA x, y : Tuple([k \in 1..Len(x) |-> IF x[k] + y[k] > 0 THEN 1 ELSE 0]))
And(a, b) == With2(a, b, LAMBDA x, y : Tuple([k \in 1..Len(x) |-> x[k] * y[k]]))
Shr(a, n) == With(a, LAMBDA x : Tuple([k \in 1..Len(x) |-> IF k <= n THEN 0 ELSE x[k - n]]))
Shl(a, n) ==
    With(a, LAMBDA x : Tuple([k \in 1..Len(x) |-> IF k + n <= Len(x) THEN x[k + n] ELSE 0]))

\* binary.LittleEndian: a word of four bytes and back
WordLE(b) == Flatten(<<Bits(8, b[4]), Bits(8, b[3]), Bits(8, b[2]), Bits(8, b[1])>>)
BytesLE(w) == <<Val(SubSeq(w, 25, 32)), Val(SubSeq(w, 17, 24)),
                Val(SubSeq(w, 9, 16)), Val(SubSeq(w, 1, 8))>>

-----------------------------------------------------------------------------
(* makernotes: DecryptHDRPBytes and multiply64 *)

\* A uint64 accumulator c[j] of multiply64 is a pair <<h, l>> standing for
\* h * 65536 + l with 0 <= l < 65536.
Wide(h, l) == <<h + (l \div 65536), l % 65536>>
WAdd(x, y) == Wide(x[1] + y[1], x[2] + y[2])
\* uint64(a) * uint64(b) for two 16-bit limbs
Mul16(a, b) ==
    Wide((a * (b \div 256)) \div 256,
         ((a * (b \div 256)) % 256) * 256 + a * (b % 256))

\* b := []uint32{0x2545, 0xf491, 0x4f6c, 0xdd1d}
MulB == <<9541, 62609, 20332, 56605>>

\* c[m] after the two multiplication loops: the sum of a[j] * b[k], j + k = m
RECURSIVE SchoolSum(_, _, _)
SchoolSum(a, m, j) ==
    IF j > 3 THEN <<0, 0>>
    ELSE IF m - j >= 0 /\ m - j <= 3
    THEN WAdd(Mul16(a[j + 1], MulB[m - j + 1]), SchoolSum(a, m, j + 1))
    ELSE SchoolSum(a, m, j + 1)

\* one iteration of the carry loop on c (c[j] is c[j + 1] here):
\*   for c[j] > 0xffffffff { c[j-2]++; c[j] -= 4294967296 }
\*   c[j-1] += c[j] >> 16 ; c[j] &= 0xffff
CarryStep(c, j) ==
    [c EXCEPT ![j - 1] = WAdd(@, <<0, c[j + 1][1] \div 65536>>),
              ![j] = WAdd(@, <<0, c[j + 1][1] % 65536>>),
              ![j + 1] = <<0, c[j + 1][2]>>]

\* for j := 6; j >= 3; j--
RECURSIVE Carry(_, _)
Carry(c, j) ==
    IF j < 3 THEN c ELSE Carry(With(c, LAMBDA v : CarryStep(v, j)), j - 1)

\* newHi = uint32((c[3] << 16) + c[4]) ; newLo = uint32((c[5] << 16) + c[6])
MulResult(c) == <<W32(c[4][2], c[5][2]), W32(c[6][2], c[7][2])>>

\* the limbs a[0..3] of hi and lo, and the product of the limbs a
Limbs(hi, lo) ==
    <<Val(SubSeq(hi, 1, 16)), Val(SubSeq(hi, 17, 32)),
      Val(SubSeq(lo, 1, 16)), Val(SubSeq(lo, 17, 32))>>
MulLimbs(a) ==
    With(Carry(Tuple([m \in 1..7 |-> SchoolSum(a, m - 1, 0)]), 6), MulResult)

\* multiply64 with a carry loop that drops what c[j] holds above 32 bits
RECURSIVE CarryLost(_, _)
CarryLost(c, j) ==
    IF j < 3 THEN c
    ELSE CarryLost(With(c, LAMBDA v :
                        [v EXCEPT ![j] = WAdd(@, <<0, v[j + 1][1] % 65536>>),
                                  ![j + 1] = <<0, v[j + 1][2]>>]), j - 1)
multiply64CarryLost(hi, lo) ==
    With(Limbs(hi, lo),
         LAMBDA a : With(CarryLost(Tuple([m \in 1..7 |-> SchoolSum(a, m - 1, 0)]), 6),
                         MulResult))

\* multiply64(hi, lo): <<newHi, newLo>>
multiply64(hi, lo) == With(Limbs(hi, lo), MulLimbs)

\* the first xor-shift with hi updated before lo takes its low bits
XorShift12Late(k) ==
    With(Xor(k[1], Shr(k[1], 12)),
         LAMBDA hi : <<hi, Xor(k[2], Or(Shr(k[2], 12), Shl(And(hi, W32(0, 4095)), 20)))>>)

\* the three xor-shifts of the key <<hi, lo>>, each from the key before it:
\*   lo ^= lo>>12 | (hi&0xfff)<<20 ; hi ^= hi >> 12
XorShift12(k) ==
    <<Xor(k[1], Shr(k[1], 12)),
      Xor(k[2], Or(Shr(k[2], 12), Shl(And(k[1], W32(0, 4095)), 20)))>>
\*   hi ^= (hi&0x7f)<<25 | lo>>7 ; lo ^= (lo & 0x7f) << 25
XorShift25(k) ==
    <<Xor(k[1], Or(Shl(And(k[1], W32(0, 127)), 25), Shr(k[2], 7))),
      Xor(k[2], Shl(And(k[2], W32(0, 127)), 25))>>
\*   lo ^= lo>>27 | (hi&0x7ffffff)<<5 ; hi ^= hi >> 27
XorShift27(k) ==
    <<Xor(k[1], Shr(k[1], 27)),
      Xor(k[2], Or(Shr(k[2], 27), Shl(And(k[1], W32(2047, 65535)), 5)))>>
\*   hi, lo = multiply64(hi, lo)
Multiply(k) == multiply64(k[1], k[2])

\* the key of the next block
NextKey(key) ==
    With(With(With(With(key, XorShift12), XorShift25), XorShift27), Multiply)

\* hi := uint32(0x2515606b) ; lo := uint32(0x4a7791cd)
InitialKey == <<W32(9493, 24683), W32(19063, 37325)>>

\* words[i] ^= lo ; words[i+1] ^= hi, on the first eight bytes
XorBlock(padded, k) ==
    BytesLE(Xor(WordLE(SubSeq(padded, 1, 4)), k[2]))
        \o BytesLE(Xor(WordLE(SubSeq(padded, 5, 8)), k[1]))

\* the block loop over the padded bytes, eight at a time
RECURSIVE DecryptBlocks(_, _)
DecryptBlocks(padded, key) ==
    With(padded, LAMBDA p :
        IF p = <<>> THEN <<>>
        ELSE With(NextKey(key),
                  LAMBDA k : XorBlock(p, k)
                                 \o DecryptBlocks(SubSeq(p, 9, Len(p)), k)))

\* decrypted = decrypted[:len(decrypted)-pad]
Unpad(result, pad) == SubSeq(result, 1, Len(result) - pad)

\* DecryptHDRPBytes with the padding taken off the front of the result
DecryptHDRPBytesFront(bs) ==
    With(bs, LAMBDA d :
        [decrypted |-> With(DecryptBlocks(d \o [k \in 1..((8 - (Len(d) % 8)) % 8) |-> 0],
                                          InitialKey),
                            LAMBDA result :
                                SubSeq(result, 1 + ((8 - (Len(d) % 8)) % 8), Len(result))),
         err |-> NoErr, data |-> d])

\* DecryptHDRPBytes(data): the error results of binary.Read and binary.Write
\* cannot occur on in-memory buffers of whole words, so err is always nil;
\* data is the caller's slice after the call: the function writes to the
\* padded copy and to words only
DecryptHDRPBytes(bs) ==
    With(bs, LAMBDA d :
        [decrypted |-> With(DecryptBlocks(d \o [k \in 1..((8 - (Len(d) % 8)) % 8) |-> 0],
                                          InitialKey),
                            LAMBDA result : Unpad(result, (8 - (Len(d) % 8)) % 8)),
         err |-> NoErr, data |-> d])

-----
(* encoding/base64: StdEncoding and RawStdEncoding DecodeString *)

\* the alphabet position of rune r, -1 outside the alphabet
B64Index(r) ==
    IF r >= 65 /\ r <= 90 THEN r - 65
    ELSE IF r >= 97 /\ r <= 122 THEN r - 71
    ELSE IF r >= 48 /\ r <= 57 THEN r + 4
    ELSE IF r = 43 THEN 62
    ELSE IF r = 47 THEN 63
    ELSE -1

B64Char(i) ==
    IF i < 26 THEN i + 65
    ELSE IF i < 52 THEN i + 71
    ELSE IF i < 62 THEN i - 4
    ELSE IF i = 62 THEN 43 ELSE 47

\* the bytes of one quantum of dlen digits (2, 3 or 4)
QuantumBytes(q, dlen) ==
    LET d(j) == IF j <= dlen THEN B64Index(q[j]) ELSE 0
        val == d(1) * 262144 + d(2) * 4096 + d(3) * 64 + d(4)
    IN  SubSeq(<<val \div 65536, (val \div 256) % 256, val % 256>>, 1, dlen - 1)

\* the number of leading alphabet runes of q
RECURSIVE ValidPrefix(_)
ValidPrefix(q) ==
    IF q = <<>> \/ B64Index(q[1]) < 0 THEN 0 ELSE 1 + ValidPrefix(Tail(q))

\* Encoding.Decode on a string without line breaks: the bytes written and
\* whether a CorruptInputError ended the decoding
\* a decoded quantum in front of the result of the quanta after it
Prepend(bytes, rest) == [bytes |-> bytes \o rest.bytes, err |-> rest.err]

RECURSIVE Decode(_, _)
Decode(s, padded) ==
    IF s = <<>> THEN [bytes |-> <<>>, err |-> FALSE]
    ELSE LET q == SubSeq(s, 1, Min(4, Len(s)))
             v == ValidPrefix(q)
             bad == [bytes |-> <<>>, err |-> TRUE]
         IN  IF v = 4
             THEN With(Decode(SubSeq(s, 5, Len(s)), padded),
                       LAMBDA rest : Prepend(QuantumBytes(q, 4), rest))
             ELSE IF v = Len(q)
             THEN \* the input ends inside a quantum
                  IF v = 1 \/ padded THEN bad
                  ELSE [bytes |-> QuantumBytes(q, v), err |-> FALSE]
             ELSE IF ~ padded \/ q[v + 1] # 61 THEN bad
             ELSE IF v < 2 THEN bad
             ELSE IF v = 2 /\ (Len(q) < 4 \/ q[4] # 61) THEN bad
             ELSE IF Len(s) > 4 THEN bad
             ELSE [bytes |-> QuantumBytes(q, v), err |-> FALSE]

\* Encoding.DecodedLen(n)
DecodedLen(n, padded) == IF padded THEN (n \div 4) * 3 ELSE (n * 6) \div 8

\* dbuf[:n] of a buffer of cap bytes of which the first n are written
Dbuf(bytes, cap) ==
    [arr |-> bytes \o [k \in 1..(cap - Len(bytes)) |-> 0], len |-> Len(bytes)]

\* Encoding.DecodeString(s): dbuf[:n] of a buffer of DecodedLen bytes, and err
DecodeString(s, padded) ==
    With(Decode(s, padded),
         LAMBDA r : [buf |-> Dbuf(r.bytes, DecodedLen(Len(s), padded)), err |-> r.err])

\* StdEncoding.EncodeToString, used to build inputs
RECURSIVE EncodeToString(_)
EncodeToString(bs) ==
    IF bs = <<>> THEN <<>>
    ELSE LET n == Min(3, Len(bs))
             b(j) == IF j <= n THEN bs[j] ELSE 0
             val == b(1) * 65536 + b(2) * 256 + b(3)
             c == <<B64Char(val \div 262144), B64Char((val \div 4096) % 64),
                    B64Char((val \div 64) % 64), B64Char(val % 64)>>
         IN  IF n = 3 THEN c \o EncodeToString(SubSeq(bs, 4, Len(bs)))
             ELSE SubSeq(c, 1, n + 1) \o [k \in 1..(3 - n) |-> 61]

-----------------------------------------------------------------------------
(* compress/flate, compress/gzip and hash/crc32 as ReadGzipContent uses    *)
(* them. Stored blocks (BTYPE 00) and the reserved block type are decoded; *)
(* a Huffman block (BTYPE 01, 10) ends the decoding with "Huffman", which  *)
(* no input of this model contains.                                        *)

\* crc32.IEEE, reflected: 0xedb88320
CrcPoly == W32(60856, 33568)
\* one bit: crc = (crc >> 1) ^ poly when the low bit is set, else crc >> 1
CrcBit(crc) == IF crc[32] = 1 THEN Xor(Shr(crc, 1), CrcPoly) ELSE Shr(crc, 1)
RECURSIVE CrcShift(_, _)
CrcShift(crc, n) == IF n = 0 THEN crc ELSE CrcShift(With(crc, CrcBit), n - 1)
RECURSIVE CrcUpdate(_, _)
CrcUpdate(crc, bs) ==
    IF bs = <<>> THEN crc
    ELSE CrcUpdate(CrcShift(Xor(crc, W32(0, bs[1])), 8), Tail(bs))
\* crc32.ChecksumIEEE
ChecksumIEEE(bs) ==
    With(bs, LAMBDA v : Xor(CrcUpdate(W32(65535, 65535), v), W32(65535, 65535)))

\* flate: the decompressor from byte position pos of z (1-based): the bytes
\* written, the error that ended it ("EOF" after the final block), and the
\* position after the last byte consumed
RECURSIVE Inflate(_, _)
Inflate(z, pos) ==
    IF pos > Len(z) THEN [out |-> <<>>, err |-> "UnexpectedEOF", pos |-> pos]
    ELSE LET final == z[pos] % 2
             btype == (z[pos] \div 2) % 4
         IN  IF btype = 3 THEN [out |-> <<>>, err |-> "Corrupt", pos |-> pos + 1]
             ELSE IF btype # 0 THEN [out |-> <<>>, err |-> "Huffman", pos |-> pos + 1]
             ELSE IF Len(z) < pos + 4
             THEN [out |-> <<>>, err |-> "UnexpectedEOF", pos |-> Len(z) + 1]
             ELSE LET n == z[pos + 1] + 256 * z[pos + 2]
                      nn == z[pos + 3] + 256 * z[pos + 4]
                      avail == Min(n, Len(z) - (pos + 4))
                      block == SubSeq(z, pos + 5, pos + 4 + avail)
                  IN  IF nn # 65535 - n
                      THEN [out |-> <<>>, err |-> "Corrupt", pos |-> pos + 5]
                      ELSE IF avail < n
                      THEN [out |-> block, err |-> "UnexpectedEOF", pos |-> Len(z) + 1]
                      ELSE IF final = 1
                      THEN [out |-> block, err |-> "EOF", pos |-> pos + 5 + n]
                      ELSE With(Inflate(z, pos + 5 + n),
                                LAMBDA rest : [rest EXCEPT !.out = block \o @])

\* gzip.Reader.readHeader at position pos, for a header without optional
\* fields (FLG = 0); "Flags" stands for a header this model does not decode
readHeader(z, pos) ==
    IF pos > Len(z) THEN "EOF"
    ELSE IF Len(z) < pos + 9 THEN "UnexpectedEOF"
    ELSE IF z[pos] # 31 \/ z[pos + 1] # 139 \/ z[pos + 2] # 8 THEN "Header"
    ELSE IF z[pos + 3] # 0 THEN "Flags"
    ELSE NoErr

\* io.ReadAll of a multistream gzip.Reader whose first header, at pos, is
\* read; r is what the decompressor gives for the member's blocks
RECURSIVE GzipReadAll(_, _)
GzipMember(z, r) ==
    IF r.err # "EOF" THEN [out |-> r.out, err |-> r.err]
    ELSE IF Len(z) < r.pos + 7 THEN [out |-> r.out, err |-> "UnexpectedEOF"]
    ELSE IF \/ WordLE(SubSeq(z, r.pos, r.pos + 3)) # ChecksumIEEE(r.out)
            \/ SubSeq(z, r.pos + 4, r.pos + 7) # BytesLE(W32(0, Len(r.out)))
    THEN [out |-> r.out, err |-> "Checksum"]
    ELSE IF readHeader(z, r.pos + 8) = "EOF" THEN [out |-> r.out, err |-> NoErr]
    ELSE IF readHeader(z, r.pos + 8) # NoErr
    THEN [out |-> r.out, err |-> readHeader(z, r.pos + 8)]
    ELSE With(GzipReadAll(z, r.pos + 8), LAMBDA rest : [rest EXCEPT !.out = r.out \o @])
GzipReadAll(z, pos) == With2(z, Inflate(z, pos + 10), GzipMember)

\* tryRawInflate(data): r is what the decompressor gives for data
RawResult(r) ==
    IF r.err \notin {"EOF", "UnexpectedEOF"}
    THEN [bytes |-> <<>>, err |-> "raw inflate failed"]
    ELSE [bytes |-> r.out, err |-> NoErr]
tryRawInflate(z) == With(Inflate(z, 1), RawResult)

\* ReadGzipContent(decrypted): the two branches, on the result of
\* tryRawInflate and on the result of io.ReadAll; raw tells that the call
\* went to tryRawInflate ("gzip.NewReader failed, attempting raw inflate")
RawBranch(raw) ==
    IF raw.err # NoErr \/ Len(raw.bytes) = 0
    THEN [bytes |-> <<>>, err |-> "both gzip and raw inflate failed", raw |-> TRUE]
    ELSE [bytes |-> raw.bytes, err |-> NoErr, raw |-> TRUE]
GzipBranch(r) ==
    IF Len(r.out) = 0 /\ r.err # NoErr
    THEN [bytes |-> <<>>, err |-> "failed to read gzip data", raw |-> FALSE]
    ELSE [bytes |-> r.out, err |-> NoErr, raw |-> FALSE]
\* ReadGzipContent returning the error of io.ReadAll whenever there is one
GzipBranchStrict(r) ==
    IF r.err # NoErr
    THEN [bytes |-> <<>>, err |-> "failed to read gzip data", raw |-> FALSE]
    ELSE [bytes |-> r.out, err |-> NoErr, raw |-> FALSE]
ReadGzipContentStrict(z) ==
    IF readHeader(z, 1) # NoErr THEN With(tryRawInflate(z), RawBranch)
    ELSE With(GzipReadAll(z, 1), GzipBranchStrict)
\* ReadGzipContent going to tryRawInflate also when io.ReadAll fails
GzipBranchRetry(z, r) ==
    IF r.err # NoErr THEN With(tryRawInflate(z), RawBranch)
    ELSE [bytes |-> r.out, err |-> NoErr, raw |-> FALSE]
ReadGzipContentRetry(z) ==
    IF readHeader(z, 1) # NoErr THEN With(tryRawInflate(z), RawBranch)
    ELSE With2(z, GzipReadAll(z, 1), GzipBranchRetry)

ReadGzipContent(z) ==
    IF readHeader(z, 1) # NoErr THEN With(tryRawInflate(z), RawBranch)
    ELSE With(GzipReadAll(z, 1), GzipBranch)

-----------------------------------------------------------------------------
(* exif: the tags of the three directories *)

\* APP1 IFD tags (app1.go)
ProcessingSoftware == 11
ImageWidth == 256
ImageHeight == 257
ImageDescription == 270
Make == 271
Model == 272
Orientation == 274
Software == 305
ModifyDate == 306
Artist == 315
Copyright == 33432
EXIFSubIFD == 34665
GPSSubIFD == 34853
XPTitle == 40091
XPComment == 40092
XPAuthor == 40093
XPKeywords == 40094
XPSubject == 40095

\* GPS IFD tags (gps.go)
GPSVersionID == 0
LatitudeRef == 1
Latitude == 2
LongitudeRef == 3
Longitude == 4
AltitudeRef == 5
Altitude == 6
MapDatum == 18
DestLatitudeRef == 19
DestLatitude == 20
DestLongitudeRef == 21
DestLongitude == 22
ProcessingMethod == 27
Differential == 30

\* EXIF sub-IFD tags (subifd.go)
FNumber == 33437
ISO == 34855
ExifVersion == 36864
DateCaptured == 36867
CreateDate == 36868
OffsetTime == 36880
OffsetTimeOriginal == 36881
OffsetTimeDigitized == 36882
FocalLength == 37386
MakerNote == 37500
UserComment == 37510
SubSecTime == 37520
SubSecTimeOriginal == 37521
SubSecTimeDigitized == 37522
FlashpixVersion == 40960
PixelXDimension == 40962
PixelYDimension == 40963
RelatedSoundFile == 40964
SceneType == 41729
WhiteBalance == 41987
DigitalZoomRatio == 41988
ImageUniqueID == 42016
BodySerialNumber == 42033
LensInfo == 42034
LensMake == 42035
LensModel == 42036
LensSerialNumber == 42037
ImageEditor == 42040
CameraFirmware == 42041
SerialNumber == 65001

-----------------------------------------------------------------------------
(* helpers.PhotoExifEvidence: the record, as a function from field to      *)
(* value. Strings read from the file are rune sequences, strings the code  *)
(* spells out are TLA+ strings, float64 values are fractions. The tags     *)
(* whose values go through the enumeration parsers and the formatters of   *)
(* helpers (ExposureTime, ExposureProgram, MeteringMode, ... in the EXIF   *)
(* directory; Timestamp, Speed, ImgDirection, DestBearing, DestDistance    *)
(* and Datestamp in the GPS directory) do not occur in the inputs of this  *)
(* specification.                                                          *)

StringFields ==
    {"Processing.ProcessingSoftware", "Authorship.ImageDescription", "Device.Make",
     "Device.Model", "Processing.Software", "Authorship.Artist",
     "Authorship.Copyright", "Authorship.XPTitle", "Authorship.XPComment",
     "Authorship.XPAuthor", "Authorship.XPKeywords", "Authorship.XPSubject",
     "Image.ExifVersion", "Image.FlashpixVersion", "Temporal.OffsetTime",
     "Temporal.OffsetTimeOriginal", "Temporal.OffsetTimeDigitized",
     "Temporal.SubSecTime", "Temporal.SubSecTimeOriginal",
     "Temporal.SubSecTimeDigitized", "Authorship.UserComment",
     "Authenticity.RelatedSoundFile", "Camera.WhiteBalance",
     "Authenticity.ImageUniqueID", "Device.BodySerialNumber", "Device.LensInfo",
     "Device.LensMake", "Device.LensModel", "Device.LensSerialNumber",
     "Processing.ImageEditor", "Device.CameraFirmware", "Device.SerialNumber",
     "GPS.Version", "GPS.MapDatum", "GPS.ProcessingMethod"}
LiteralFields == {"Image.Orientation", "Image.SceneType", "GPS.Differential"}
IntFields == {"Image.Width", "Image.Height", "Camera.ISO"}
FloatFields ==
    {"Camera.FNumber", "Camera.FocalLength", "Processing.DigitalZoomRatio",
     "Image.PixelXDimension", "Image.PixelYDimension", "GPS.Latitude",
     "GPS.Longitude", "GPS.Altitude", "GPS.DestinationLatitude",
     "GPS.DestinationLongitude"}
TimeFields == {"Temporal.ModifyDate", "Temporal.DateCaptured", "Temporal.CreateDate"}
NoteFields == {"Authenticity.MakerNote", "Image.MakersNote"}

\* time.Time{}: year, month, day, hour, minute, second, nanosecond
ZeroTime == <<1, 1, 1, 0, 0, 0, 0>>
\* helpers.MakerNoteData{}
ZeroNote == [Raw |-> <<>>, Manufacturer |-> "", Parsed |-> <<>>]

\* metadata := PhotoExifEvidence{}
PhotoExifEvidence ==
    [f \in StringFields \cup LiteralFields \cup IntFields \cup FloatFields
             \cup TimeFields \cup NoteFields |->
        IF f \in StringFields THEN <<>>
        ELSE IF f \in LiteralFields THEN ""
        ELSE IF f \in IntFields THEN 0
        ELSE IF f \in FloatFields THEN FZero
        ELSE IF f \in TimeFields THEN ZeroTime
        ELSE ZeroNote]

\* strconv.Itoa for n >= 0, as the %d verb prints it
RECURSIVE Itoa(_)
Itoa(n) == IF n < 10 THEN <<48 + n>> ELSE Itoa(n \div 10) \o <<48 + (n % 10)>>

\* helpers.ParseOrientationValue
ParseOrientationValue(raw) ==
    CASE raw = 1 -> "Horizontal"
      [] raw = 2 -> "Mirror horizontal"
      [] raw = 3 -> "Rotate 180"
      [] raw = 4 -> "Mirror vertical"
      [] raw = 5 -> "Mirror horizontal and rotate 270 CW"
      [] raw = 6 -> "Rotate 90 CW"
      [] raw = 7 -> "Mirror horizontal and rotate 90 CW"
      [] raw = 8 -> "Rotate 270 CW"
      [] OTHER -> "Unknown"

\* helpers.ParseExposureProgram
ParseExposureProgram(raw) ==
    CASE raw = 0 -> "Not Defined"
      [] raw = 1 -> "Manual"
      [] raw = 2 -> "Program AE"
      [] raw = 3 -> "Aperture-priority AE"
      [] raw = 4 -> "Shutter speed priority AE"
      [] raw = 5 -> "Creative (Slow speed)"
      [] raw = 6 -> "Action (High speed)"
      [] raw = 7 -> "Portrait"
      [] raw = 8 -> "Landscape"
      [] raw = 9 -> "Bulb"
      [] OTHER -> "Unknown"

\* helpers.ParseMeteringMode
ParseMeteringMode(raw) ==
    CASE raw = 0 -> "Unknown"
      [] raw = 1 -> "Average"
      [] raw = 2 -> "Center-weighted average"
      [] raw = 3 -> "Spot"
      [] raw = 4 -> "Multi-spot"
      [] raw = 5 -> "Multi-segment"
      [] raw = 6 -> "Partial"
      [] raw = 255 -> "Other"
      [] OTHER -> "Not Defined"

\* helpers.ParseLightSource
ParseLightSource(raw) ==
    CASE raw = 0 -> "Unknown"
      [] raw = 1 -> "Daylight"
      [] raw = 2 -> "Fluorescent"
      [] raw = 3 -> "Tungsten (Incandescent)"
      [] raw = 4 -> "Flash"
      [] raw = 9 -> "Fine Weather"
      [] raw = 10 -> "Cloudy"
      [] raw = 11 -> "Shade"
      [] raw = 12 -> "Daylight Fluorescent"
      [] raw = 13 -> "Day White Fluorescent"
      [] raw = 14 -> "Cool White Fluorescent"
      [] raw = 15 -> "White Fluorescent"
      [] raw = 16 -> "Warm White Fluorescent"
      [] raw = 17 -> "Standard Light A"
      [] raw = 18 -> "Standard Light B"
      [] raw = 19 -> "Standard Light C"
      [] raw = 20 -> "D55"
      [] raw = 21 -> "D65"
      [] raw = 22 -> "D75"
      [] raw = 23 -> "D50"
      [] raw = 24 -> "ISO Studio Tungsten"
      [] raw = 255 -> "Other"
      [] OTHER -> "Not Defined"

\* helpers.ParseColourSpace
ParseColourSpace(raw) ==
    CASE raw = 1 -> "sRGB"
      [] raw = 2 -> "Adobe RGB"
      [] raw = 65533 -> "Wide Gamut RGB"
      [] raw = 65534 -> "ICC Profile"
      [] raw = 65535 -> "Uncalibrated"
      [] OTHER -> "None"

\* helpers.ParseFlashValue
ParseFlashValue(raw) ==
    CASE raw = 0 -> "No Flash"
      [] raw = 1 -> "Fired"
      [] raw = 5 -> "Fired, Return no detected"
      [] raw = 7 -> "Fired, Return detected"
      [] raw = 8 -> "On, Did not fire"
      [] raw = 9 -> "On, Fired"
      [] raw = 13 -> "On, Return not detected"
      [] raw = 15 -> "On, Return detected"
      [] raw = 16 -> "Off, Did not fire"
      [] raw = 20 -> "Off, Did not fire, Return not detected"
      [] raw = 24 -> "Auto, Did not fire"
      [] raw = 25 -> "Auto, Fired"
      [] raw = 29 -> "Auto, Fired, Return not detected"
      [] raw = 31 -> "Auto, Fired, Return detected"
      [] raw = 32 -> "No flash function"
      [] raw = 48 -> "Off, No flash function"
      [] raw = 65 -> "Fired, Red-eye reduction"
      [] raw = 69 -> "Fired, Red-eye reduction, Return not detected"
      [] raw = 71 -> "Fired, Red-eye reduction, Return detected"
      [] raw = 73 -> "On, Red-eye reduction"
      [] raw = 77 -> "On, Red-eye reduction, Return not detected"
      [] raw = 79 -> "On, Red-eye reduction, Return detected"
      [] raw = 80 -> "Off, Red-eye reduction"
      [] raw = 88 -> "Auto, Did not fire, Red-eye reduction"
      [] raw = 89 -> "Auto, Fired, Red-eye reduction"
      [] raw = 93 -> "Auto, Fired, Red-eye reduction, Return not detected"
      [] raw = 95 -> "Auto, Fired, Red-eye reduction, Return detected"
      [] OTHER -> "Unknown"

\* helpers.ParseFileSource
ParseFileSource(raw) ==
    CASE raw = 1 -> "Film Scanner (Transparent Scanner)"
      [] raw = 2 -> "Film Scanner (Relection Print Scanner)"
      [] raw = 3 -> "Digital Camera"
      [] OTHER -> "Unknown"

\* helpers.ParseSceneType
ParseSceneType(raw) ==
    CASE raw = 0 -> "Standard"
      [] raw = 1 -> "Landscape"
      [] raw = 2 -> "Portrait"
      [] raw = 3 -> "Night"
      [] raw = 4 -> "Other"
      [] OTHER -> "Unknown"

\* ParseProcessing with the fallback label of the other decoders
ParseProcessingUnknown(raw) ==
    CASE raw = 0 -> "Normal"
      [] raw = 1 -> "Low"
      [] raw = 2 -> "High"
      [] OTHER -> "Unknown"

\* helpers.ParseProcessing
ParseProcessing(raw) ==
    CASE raw = 0 -> "Normal"
      [] raw = 1 -> "Low"
      [] raw = 2 -> "High"
      [] OTHER -> "Unknown or not set"

\* helpers.ParseSubjectDistanceRange
ParseSubjectDistanceRange(raw) ==
    CASE raw = 0 -> "Unknown"
      [] raw = 1 -> "Macro"
      [] raw = 2 -> "Close"
      [] raw = 3 -> "Distant"
      [] OTHER -> "Not defined"

\* helpers.ParseCompositeImage
ParseCompositeImage(raw) ==
    CASE raw = 0 -> "Unknown"
      [] raw = 1 -> "Not a Composite Image"
      [] raw = 2 -> "General Composite Image"
      [] raw = 3 -> "Composite Image Captured While Shooting"
      [] OTHER -> "Not defined"

\* fmt.Sprintf("%.1f", x) for x >= 0: the tenths of x rounded to nearest; a
\* tie of a value that float64 holds exactly goes to the even digit
FormatF1(x) ==
    LET twenty == (20 * x[1]) \div x[2]
        tie == (20 * x[1]) % x[2] = 0 /\ twenty % 2 = 1
        down == twenty \div 2
        tenths == IF tie THEN (IF down % 2 = 0 THEN down ELSE down + 1)
                  ELSE (twenty + 1) \div 2
    IN  Itoa(tenths \div 10) \o <<46>> \o Itoa(tenths % 10)

\* int(+Inf), printed with %d: "the result value is implementation-
\* dependent"; amd64 gives the least int64, arm64 the greatest
IntOfInf ==
    {<<45, 57, 50, 50, 51, 51, 55, 50, 48, 51, 54, 56, 53, 52, 55, 55, 53, 56, 48, 56>>,
     <<57, 50, 50, 51, 51, 55, 50, 48, 51, 54, 56, 53, 52, 55, 55, 53, 56, 48, 55>>}

\* helpers.FormatExposureTime; inf is what the build gives for int(+Inf)
FormatExposureTime(num, den, inf) ==
    IF den = 0 THEN <<73, 110, 118, 97, 108, 105, 100>>
    ELSE IF num >= den
    THEN LET seconds == Frac(num, den)
         IN  IF seconds[2] = 1 THEN Itoa(seconds[1]) \o <<115>>
             ELSE FormatF1(seconds) \o <<115>>
    ELSE LET reciprocal == IF num = 0 THEN inf
                           ELSE Itoa(((2 * den) + num) \div (2 * num))
         IN  <<49, 47>> \o reciprocal

-----------------------------------------------------------------------------
(* time.Parse("2006:01:02 15:04:05", s) *)

IsDigit(s, i) == i <= Len(s) /\ s[i] >= 48 /\ s[i] <= 57
Digit(s, i) == s[i] - 48
\* the first position from i that does not hold a space
RECURSIVE CutSpace(_, _)
CutSpace(s, i) == IF i <= Len(s) /\ s[i] = 32 THEN CutSpace(s, i + 1) ELSE i
\* the first position from i that does not hold a digit
RECURSIVE CutDigits(_, _)
CutDigits(s, i) == IF IsDigit(s, i) THEN CutDigits(s, i + 1) ELSE i

\* the number a digit string spells
RECURSIVE Atoi(_)
Atoi(ds) == IF ds = <<>> THEN 0 ELSE 10 * Atoi(SubSeq(ds, 1, Len(ds) - 1)) + (ds[Len(ds)] - 48)

DaysIn(month, year) ==
    IF month = 2
    THEN IF year % 4 = 0 /\ (year % 100 # 0 \/ year % 400 = 0) THEN 29 ELSE 28
    ELSE IF month \in {4, 6, 9, 11} THEN 30 ELSE 31

\* the parsed time and whether the parse failed
TimeParse(s) ==
    LET bad == [err |-> TRUE, t |-> ZeroTime]
        \* "2006:01:02": four, two and two digits between colons
        dateOK == /\ \A i \in {1, 2, 3, 4, 6, 7, 9, 10} : IsDigit(s, i)
                  /\ Len(s) >= 10 /\ s[5] = 58 /\ s[8] = 58
        year == Digit(s, 1) * 1000 + Digit(s, 2) * 100 + Digit(s, 3) * 10 + Digit(s, 4)
        month == Digit(s, 6) * 10 + Digit(s, 7)
        day == Digit(s, 9) * 10 + Digit(s, 10)
        \* " ": one or more spaces
        h == CutSpace(s, 11)
        \* "15": one or two digits
        hlen == IF IsDigit(s, h + 1) THEN 2 ELSE 1
        hour == IF hlen = 2 THEN Digit(s, h) * 10 + Digit(s, h + 1) ELSE Digit(s, h)
        m == h + hlen
        \* ":04:05": two and two digits
        restOK == /\ Len(s) >= m + 5 /\ s[m] = 58 /\ s[m + 3] = 58
                  /\ \A i \in {m + 1, m + 2, m + 4, m + 5} : IsDigit(s, i)
        min == Digit(s, m + 1) * 10 + Digit(s, m + 2)
        sec == Digit(s, m + 4) * 10 + Digit(s, m + 5)
        \* a fractional second is accepted though the layout has none
        f == m + 6
        hasFrac == Len(s) >= f + 1 /\ s[f] \in {44, 46} /\ IsDigit(s, f + 1)
        end == IF hasFrac THEN CutDigits(s, f + 1) ELSE f
        \* parseNanoseconds: at most nine digits count, scaled to nanoseconds
        digits == IF hasFrac THEN SubSeq(s, f + 1, Min(end - 1, f + 9)) ELSE <<>>
        nsec == Atoi(digits \o [k \in 1..(9 - Len(digits)) |-> 48])
    IN  IF ~ dateOK \/ month < 1 \/ month > 12 THEN bad
        ELSE IF Len(s) < 11 \/ s[11] # 32 \/ ~ IsDigit(s, h) THEN bad
        ELSE IF hour >= 24 \/ ~ restOK THEN bad
        ELSE IF min >= 60 \/ sec >= 60 THEN bad
        ELSE IF end <= Len(s) THEN bad
        ELSE IF day < 1 \/ day > DaysIn(month, year) THEN bad
        ELSE [err |-> FALSE, t |-> <<year, month, day, hour, min, sec, nsec>>]

-----------------------------------------------------------------------------
(* exif: the switch statements of the three directory walks. Each takes    *)
(* the record (and, for GPS, the walk's local variables) and gives the     *)
(* record after the case of entry.Tag, or Panic.                           *)

\* the field a tag's GetString result is stored in, "" for other tags
PrimaryStringField(tag) ==
    CASE tag = ProcessingSoftware -> "Processing.ProcessingSoftware"
      [] tag = ImageDescription -> "Authorship.ImageDescription"
      [] tag = Make -> "Device.Make"
      [] tag = Model -> "Device.Model"
      [] tag = Software -> "Processing.Software"
      [] tag = Artist -> "Authorship.Artist"
      [] tag = Copyright -> "Authorship.Copyright"
      [] OTHER -> ""

PrimaryUTF16Field(tag) ==
    CASE tag = XPTitle -> "Authorship.XPTitle"
      [] tag = XPComment -> "Authorship.XPComment"
      [] tag = XPAuthor -> "Authorship.XPAuthor"
      [] tag = XPKeywords -> "Authorship.XPKeywords"
      [] tag = XPSubject -> "Authorship.XPSubject"
      [] OTHER -> ""

\* a GetString result stored in field f
SetString(md, f, s) == IF s.panic THEN Panic ELSE Ok([md EXCEPT ![f] = s.v])

\* a date tag: parsed and stored, or skipped when the parse fails
\* SetTime without the `continue`: the zero time.Time that a failed
\* time.Parse returns is stored
SetTimeAlways(md, f, s) ==
    IF s.panic THEN Panic
    ELSE Ok([md EXCEPT ![f] = TimeParse(s.v).t])

\* dateStr := ...; parsed, err := time.Parse(...); if err != nil { continue }
SetTime(md, f, s) ==
    IF s.panic THEN Panic
    ELSE LET parsed == TimeParse(s.v)
         IN  IF parsed.err THEN Ok(md) ELSE Ok([md EXCEPT ![f] = parsed.t])

\* PrimaryTag with a default case: a tag that has no case is stored as the
\* image description
PrimaryTagDefault(h, md, entry, entryOffset) ==
    LET tag == entry.Tag
    IN  IF PrimaryStringField(tag) # ""
        THEN SetString(md, PrimaryStringField(tag), GetString(h, entry, entryOffset))
        ELSE IF PrimaryUTF16Field(tag) # ""
        THEN Ok([md EXCEPT ![PrimaryUTF16Field(tag)] =
                    GetUTF16LEString(h, entry, entryOffset)])
        ELSE IF tag = ImageWidth
        THEN Ok([md EXCEPT !["Image.Width"] = GetUint32(h, entryOffset)])
        ELSE IF tag = ImageHeight
        THEN Ok([md EXCEPT !["Image.Height"] = GetUint32(h, entryOffset)])
        ELSE IF tag = Orientation
        THEN Ok([md EXCEPT !["Image.Orientation"] =
                    ParseOrientationValue(GetUint16(h, entryOffset))])
        ELSE IF tag = ModifyDate
        THEN SetTime(md, "Temporal.ModifyDate", GetString(h, entry, entryOffset))
        ELSE SetString(md, "Authorship.ImageDescription",
                       GetString(h, entry, entryOffset))

\* ExtractExifData: switch entry.Tag, the cases other than the two pointers
PrimaryTag(h, md, entry, entryOffset) ==
    LET tag == entry.Tag
    IN  IF PrimaryStringField(tag) # ""
        THEN SetString(md, PrimaryStringField(tag), GetString(h, entry, entryOffset))
        ELSE IF PrimaryUTF16Field(tag) # ""
        THEN Ok([md EXCEPT ![PrimaryUTF16Field(tag)] =
                    GetUTF16LEString(h, entry, entryOffset)])
        ELSE IF tag = ImageWidth
        THEN Ok([md EXCEPT !["Image.Width"] = GetUint32(h, entryOffset)])
        ELSE IF tag = ImageHeight
        THEN Ok([md EXCEPT !["Image.Height"] = GetUint32(h, entryOffset)])
        ELSE IF tag = Orientation
        THEN Ok([md EXCEPT !["Image.Orientation"] =
                    ParseOrientationValue(GetUint16(h, entryOffset))])
        ELSE IF tag = ModifyDate
        THEN SetTime(md, "Temporal.ModifyDate", GetString(h, entry, entryOffset))
        ELSE Ok(md)

ExifStringField(tag) ==
    CASE tag = OffsetTime -> "Temporal.OffsetTime"
      [] tag = OffsetTimeOriginal -> "Temporal.OffsetTimeOriginal"
      [] tag = OffsetTimeDigitized -> "Temporal.OffsetTimeDigitized"
      [] tag = SubSecTime -> "Temporal.SubSecTime"
      [] tag = SubSecTimeOriginal -> "Temporal.SubSecTimeOriginal"
      [] tag = SubSecTimeDigitized -> "Temporal.SubSecTimeDigitized"
      [] tag = RelatedSoundFile -> "Authenticity.RelatedSoundFile"
      [] tag = WhiteBalance -> "Camera.WhiteBalance"
      [] tag = ImageUniqueID -> "Authenticity.ImageUniqueID"
      [] tag = BodySerialNumber -> "Device.BodySerialNumber"
      [] tag = LensInfo -> "Device.LensInfo"
      [] tag = LensMake -> "Device.LensMake"
      [] tag = LensModel -> "Device.LensModel"
      [] tag = LensSerialNumber -> "Device.LensSerialNumber"
      [] tag = ImageEditor -> "Processing.ImageEditor"
      [] tag = CameraFirmware -> "Device.CameraFirmware"
      [] tag = SerialNumber -> "Device.SerialNumber"
      [] OTHER -> ""

ExifRationalField(tag) ==
    CASE tag = FNumber -> "Camera.FNumber"
      [] tag = FocalLength -> "Camera.FocalLength"
      [] tag = DigitalZoomRatio -> "Processing.DigitalZoomRatio"
      [] OTHER -> ""

\* StoreMakerNote without the `continue`: *parsed is evaluated with the nil
\* pointer an error comes with
StoreMakerNoteDeref(md, r, raw) ==
    IF r.panic \/ r.v.nilMap THEN Panic
    ELSE Ok([md EXCEPT !["Authenticity.MakerNote"] =
                [Raw |-> raw, Manufacturer |-> r.v.manufacturer, Parsed |-> r.v.parsed]])

\* case MakerNote: the dispatcher's result r, stored unless it is an error
StoreMakerNote(md, r, raw) ==
    IF r.panic THEN Panic
    ELSE IF r.v.err # NoErr THEN Ok(md)
    ELSE Ok([md EXCEPT !["Authenticity.MakerNote"] =
                [Raw |-> raw, Manufacturer |-> r.v.manufacturer, Parsed |-> r.v.parsed]])

ExifMakerNote(h, md, entry) ==
    StoreMakerNote(md, DetectAndParse(h, entry),
                   GetByteArray(h, entry, h.TiffStart + entry.ValueOffset))

\* ExtractExifSubIFD: switch entry.Tag
ExifTag(h, md, entry, entryOffset) ==
    LET tag == entry.Tag
    IN  IF ExifStringField(tag) # ""
        THEN SetString(md, ExifStringField(tag), GetString(h, entry, entryOffset))
        ELSE IF ExifRationalField(tag) # ""
        THEN Ok([md EXCEPT ![ExifRationalField(tag)] = GetRational(h, entry, 0, FALSE)])
        ELSE IF tag = ISO
        THEN Ok([md EXCEPT !["Camera.ISO"] = GetUint16(h, entryOffset)])
        ELSE IF tag = ExifVersion
        THEN SetString(md, "Image.ExifVersion", GetVersion(h, entry, entryOffset))
        ELSE IF tag = FlashpixVersion
        THEN SetString(md, "Image.FlashpixVersion", GetVersion(h, entry, entryOffset))
        ELSE IF tag = DateCaptured
        THEN SetTime(md, "Temporal.DateCaptured", GetString(h, entry, entryOffset))
        ELSE IF tag = CreateDate
        THEN SetTime(md, "Temporal.CreateDate", GetString(h, entry, entryOffset))
        ELSE IF tag = MakerNote
        THEN ExifMakerNote(h, md, entry)
        ELSE IF tag = UserComment
        THEN Ok([md EXCEPT !["Authorship.UserComment"] =
                    GetUserComment(h, entry, entryOffset)])
        ELSE IF tag = PixelXDimension
        THEN Ok([md EXCEPT !["Image.PixelXDimension"] =
                    Frac(GetUint16(h, entryOffset), 1)])
        ELSE IF tag = PixelYDimension
        THEN Ok([md EXCEPT !["Image.PixelYDimension"] =
                    Frac(GetUint16(h, entryOffset), 1)])
        ELSE IF tag = SceneType
        THEN Ok([md EXCEPT !["Image.SceneType"] =
                    IF GetUint8(h, entryOffset) = 1 THEN "Directly Photographed"
                    ELSE "Unknown"])
        ELSE Ok(md)

\* the local variables of ExtractGPSIFD that the modelled tags use
GPSLocals ==
    [latRef |-> <<>>, longRef |-> <<>>, destLatRef |-> <<>>, destLongRef |-> <<>>,
     hasLat |-> FALSE, hasLong |-> FALSE, hasDestLat |-> FALSE,
     hasDestLong |-> FALSE, underSeaLevel |-> FALSE]

\* a reference letter read with GetString into local variable v
SetRef(st, v, s) == IF s.panic THEN Panic ELSE Ok([st EXCEPT !.g[v] = s.v])
\* a coordinate read with GetGPSCoord into field f, and its flag set
SetCoord(st, f, flag, c) == Ok([st EXCEPT !.md[f] = c, !.g[flag] = TRUE])

\* ExtractGPSIFD: switch entry.Tag; st is [md, g]
GPSTag(h, st, entry, entryOffset) ==
    LET tag == entry.Tag
    IN  CASE tag = GPSVersionID ->
               LET rawVersion == GetUint8Array(h, entryOffset, 4)
               IN  IF rawVersion.panic THEN Panic
                   ELSE Ok([st EXCEPT !.md["GPS.Version"] =
                               Itoa(rawVersion.v[1]) \o <<46>> \o Itoa(rawVersion.v[2])
                               \o <<46>> \o Itoa(rawVersion.v[3]) \o <<46>>
                               \o Itoa(rawVersion.v[4])])
          [] tag = LatitudeRef -> SetRef(st, "latRef", GetString(h, entry, entryOffset))
          [] tag = Latitude -> SetCoord(st, "GPS.Latitude", "hasLat", GetGPSCoord(h, entry))
          [] tag = LongitudeRef -> SetRef(st, "longRef", GetString(h, entry, entryOffset))
          [] tag = Longitude -> SetCoord(st, "GPS.Longitude", "hasLong", GetGPSCoord(h, entry))
          [] tag = AltitudeRef ->
               IF GetUint8(h, entryOffset) \in {1, 3}
               THEN Ok([st EXCEPT !.g.underSeaLevel = TRUE])
               ELSE Ok(st)
          [] tag = Altitude ->
               Ok([st EXCEPT !.md["GPS.Altitude"] = GetRational(h, entry, 0, FALSE)])
          [] tag = MapDatum ->
               LET s == GetString(h, entry, entryOffset)
               IN  IF s.panic THEN Panic ELSE Ok([st EXCEPT !.md["GPS.MapDatum"] = s.v])
          [] tag = DestLatitudeRef ->
               SetRef(st, "destLatRef", GetString(h, entry, entryOffset))
          [] tag = DestLatitude ->
               SetCoord(st, "GPS.DestinationLatitude", "hasDestLat", GetGPSCoord(h, entry))
          [] tag = DestLongitudeRef ->
               SetRef(st, "destLongRef", GetString(h, entry, entryOffset))
          [] tag = DestLongitude ->
               SetCoord(st, "GPS.DestinationLongitude", "hasDestLong", GetGPSCoord(h, entry))
          [] tag = ProcessingMethod ->
               LET s == GetString(h, entry, entryOffset)
               IN  IF s.panic THEN Panic
                   ELSE Ok([st EXCEPT !.md["GPS.ProcessingMethod"] = s.v])
          [] tag = Differential ->
               Ok([st EXCEPT !.md["GPS.Differential"] =
                      IF GetUint16(h, entryOffset) = 1 THEN "Differential Corrected"
                      ELSE "No Correction"])
          [] OTHER -> Ok(st)

\* a coordinate negated when its flag is set and its reference is the letter
Signed(v, has, ref, letter) == IF has /\ ref = <<letter>> THEN FNeg(v) ELSE v

\* the sign corrections with the latitude tested against the longitude's
\* letter
GPSSignCorrectionWest(md, g) ==
    [md EXCEPT
        !["GPS.Latitude"] = Signed(@, g.hasLat, g.latRef, 87),
        !["GPS.Longitude"] = Signed(@, g.hasLong, g.longRef, 87),
        !["GPS.Altitude"] = IF g.underSeaLevel THEN FNeg(@) ELSE @,
        !["GPS.DestinationLatitude"] = Signed(@, g.hasDestLat, g.destLatRef, 83),
        !["GPS.DestinationLongitude"] = Signed(@, g.hasDestLong, g.destLongRef, 87)]

\* ExtractGPSIFD after the loop: the sign corrections
GPSSignCorrection(md, g) ==
    [md EXCEPT
        !["GPS.Latitude"] = Signed(@, g.hasLat, g.latRef, 83),
        !["GPS.Longitude"] = Signed(@, g.hasLong, g.longRef, 87),
        !["GPS.Altitude"] = IF g.underSeaLevel THEN FNeg(@) ELSE @,
        !["GPS.DestinationLatitude"] = Signed(@, g.hasDestLat, g.destLatRef, 83),
        !["GPS.DestinationLongitude"] = Signed(@, g.hasDestLong, g.destLongRef, 87)]

-----------------------------------------------------------------------------
(* exif: the MakerNote sub-pipeline's reads of the XMP packets. The bytes  *)
(* after the EXIF block are described by the two packets they hold         *)
(* (variable tail): for each, whether its header and its end tag are found *)
(* ("none", "noend", "ok"), whether xml.Unmarshal accepts it, whether a     *)
(* failing xml.Unmarshal had stored the attributes of the Description      *)
(* element before it failed (stored), the GUID in the header of the        *)
(* extended packet, and the two attributes the pipeline reads:             *)
(* HdrPlusMakerNote is the text of the attribute in the packet, decoded    *)
(* what the XML parser makes of it.                                        *)

NoPacket == [found |-> "none", xml |-> FALSE, stored |-> FALSE, guid |-> "",
             HasExtendedXMP |-> "", HdrPlusMakerNote |-> <<>>, decoded |-> <<>>]

\* ExtractXMPData(data): err, for a buffer described by its packets
ExtractXMPDataErr(t) ==
    IF t.xmp.found = "none" THEN "XMP block not found"
    ELSE IF t.xmp.found = "noend" THEN "XMP end tag not found"
    ELSE NoErr

\* "http://ns.adobe.com/xap/1.0/\x00" and "</x:xmpmeta>"
xmpHeader == <<104, 116, 116, 112, 58, 47, 47, 110, 115, 46, 97, 100, 111, 98, 101, 46, 99, 111, 109, 47, 120, 97, 112, 47, 49, 46, 48, 47, 0>>
xmpEnd == <<60, 47, 120, 58, 120, 109, 112, 109, 101, 116, 97, 62>>

\* string(data[i:i+len(pat)]) == pat, for i + len(pat) <= len(data)
MatchAt(d, i, pat) == SubSeq(d, i + 1, i + Len(pat)) = pat
Least(S) == CHOOSE i \in S : \A k \in S : i <= k

\* strings.TrimLeft(s, cutset) with an ASCII cutset: the leading bytes that
\* occur in cutset are removed
RECURSIVE TrimLeft(_, _)
TrimLeft(str, cutset) ==
    IF str # <<>> /\ (\E k \in 1..Len(cutset) : cutset[k] = str[1])
    THEN TrimLeft(Tail(str), cutset)
    ELSE str

\* ExtractXMPData(data) on the bytes of data: (string, error)
ExtractXMPData(d) ==
    LET starts == {i \in 0..(Len(d) - Len(xmpHeader) - 1) : MatchAt(d, i, xmpHeader)}
    IN  IF starts = {} THEN [out |-> <<>>, err |-> "XMP block not found"]
        ELSE LET start == Least(starts)
                 ends == {k \in start..(Len(d) - 12) : MatchAt(d, k, xmpEnd)}
             IN  IF ends = {} THEN [out |-> <<>>, err |-> "XMP end tag not found"]
                 ELSE [out |-> TrimLeft(SubSeq(d, start + 1, Least(ends) + 12), xmpHeader),
                       err |-> NoErr]

\* ExtractExtXMPData(data, extId): err
ExtractExtXMPData(t, extId) ==
    IF t.ext.found = "none" \/ t.ext.guid # extId
    THEN "extended XMP data not found"
    ELSE IF t.ext.found = "noend" THEN "XMP end tag not found"
    ELSE NoErr

\* var xmp XmpMeta: the two attributes of the Description element
ZeroXmpMeta == [HasExtendedXMP |-> "", HdrPlusMakerNote |-> <<>>]

\* "HdrPlusMakernote"
AttrName == <<72, 100, 114, 80, 108, 117, 115, 77, 97, 107, 101, 114, 110, 111, 116, 101>>

\* extractRawXMLAttribute(xmlStr, attrName): group 1 of the leftmost match of
\* [a-zA-Z]*:?attrName="([^"]*)", which is the text between the first
\* attrName=" and the next double quote; "" when there is no match
extractRawXMLAttribute(xmlStr, attrName) ==
    LET pat == attrName \o <<61, 34>>
        starts == {i \in 0..(Len(xmlStr) - Len(pat)) : MatchAt(xmlStr, i, pat)}
    IN  IF starts = {} THEN <<>>
        ELSE LET from == Least(starts) + Len(pat)
                 quotes == {k \in (from + 1)..Len(xmlStr) : xmlStr[k] = 34}
             IN  IF quotes = {} THEN <<>>
                 ELSE SubSeq(xmlStr, from + 1, Least(quotes) - 1)

\* the XML parser's reading of an attribute value: "&amp;", "&lt;" and
\* "&gt;" stand for one character; any other '&' is an error
Entities == <<[name |-> <<38, 97, 109, 112, 59>>, char |-> 38], [name |-> <<38, 108, 116, 59>>, char |-> 60],
              [name |-> <<38, 103, 116, 59>>, char |-> 62]>>
EntityAt(v) ==
    {k \in 1..Len(Entities) : HasPrefix(v, Entities[k].name)}
RECURSIVE BadEntity(_)
BadEntity(v) ==
    IF v = <<>> THEN FALSE
    ELSE IF v[1] # 38 THEN BadEntity(Tail(v))
    ELSE IF EntityAt(v) = {} THEN TRUE
    ELSE BadEntity(SubSeq(v, Len(Entities[Least(EntityAt(v))].name) + 1, Len(v)))
RECURSIVE EntityDecode(_)
EntityDecode(v) ==
    IF v = <<>> THEN <<>>
    ELSE IF v[1] # 38 \/ EntityAt(v) = {} THEN <<v[1]>> \o EntityDecode(Tail(v))
    ELSE LET en == Entities[Least(EntityAt(v))]
         IN  <<en.char>> \o EntityDecode(SubSeq(v, Len(en.name) + 1, Len(v)))

\* An XMP document, given by its parts: a comment that holds
\* HdrPlusMakernote="zz" before the Description element (decoy), the quote
\* that delimits the attribute's value (34 double, 39 single), the value as
\* written (v), the HasExtendedXMP attribute (ext), and whether the
\* elements are closed.
XmpDoc(doc) ==
    Flatten(<<<<60, 120, 58, 120, 109, 112, 109, 101, 116, 97, 62, 60, 114, 100, 102, 58, 82, 68, 70, 62>>,
              IF doc.decoy THEN <<60, 33, 45, 45, 72, 100, 114, 80, 108, 117, 115, 77, 97, 107, 101, 114, 110, 111, 116, 101, 61, 34, 122, 122, 34, 45, 45, 62>> ELSE <<>>,
              <<60, 114, 100, 102, 58, 68, 101, 115, 99, 114, 105, 112, 116, 105, 111, 110, 32, 72, 97, 115, 69, 120, 116, 101, 110, 100, 101, 100, 88, 77, 80, 61, 34>>, doc.ext,
              <<34, 32, 71, 67, 97, 109, 101, 114, 97, 58, 72, 100, 114, 80, 108, 117, 115, 77, 97, 107, 101, 114, 110, 111, 116, 101, 61>>, <<doc.quote>>, doc.v, <<doc.quote>>, <<62>>,
              IF doc.closed THEN <<60, 47, 114, 100, 102, 58, 68, 101, 115, 99, 114, 105, 112, 116, 105, 111, 110, 62, 60, 47, 114, 100, 102, 58, 82, 68, 70, 62, 60, 47, 120, 58, 120, 109, 112, 109, 101, 116, 97, 62>> ELSE <<>>>>)

\* xml.Unmarshal(inXml, &xmp) on a document: a value with a bad entity
\* fails the start tag of Description, before any attribute is stored; a
\* document that ends with its elements open fails at its end, after the
\* attributes of Description were stored
xmlUnmarshal(doc) ==
    IF BadEntity(doc.v) THEN [err |-> TRUE, xmp |-> ZeroXmpMeta]
    ELSE [err |-> ~ doc.closed,
          xmp |-> [HasExtendedXMP |-> doc.ext,
                   HdrPlusMakerNote |-> EntityDecode(doc.v)]]


\* xml.Unmarshal(inXml, &xmp) on a packet: the error, and xmp as the parser
\* leaves it.  The parser assigns the attributes of an element when it
\* reads the element's start tag, so an error met after the start tag of
\* Description leaves them in xmp.
UnmarshalPacket(packet) ==
    [err |-> ~ packet.xml,
     xmp |-> IF packet.xml \/ packet.stored
             THEN [HasExtendedXMP |-> packet.HasExtendedXMP,
                   HdrPlusMakerNote |-> packet.decoded]
             ELSE ZeroXmpMeta]

\* helper.DecodeXMPMeta(inXml), given what xml.Unmarshal(inXml, &xmp) and
\* extractRawXMLAttribute(string(inXml), "HdrPlusMakernote") yield: xmp as
\* the parser left it when xml.Unmarshal fails, else xmp with the raw
\* attribute
DecodeXMPMeta(parsed, raw) ==
    IF parsed.err THEN parsed.xmp
    ELSE [parsed.xmp EXCEPT !.HdrPlusMakerNote = raw]

\* "HDR+" and "HDRP"
HDRPlus == <<72, 68, 82, 43>>
HDRP == <<72, 68, 82, 80>>

\* the local variables of the sub-pipeline
PipeLocals ==
    [xmp |-> [HasExtendedXMP |-> "", HdrPlusMakerNote |-> <<>>],
     cleanBase64 |-> <<>>, encrypted |-> Bytes(<<>>), decrypted |-> <<>>,
     protoBytes |-> <<>>]

\* the two return statements: (nil, err) and (&metadata, err)
ReturnNil(err) == [nilRecord |-> TRUE, rec |-> PhotoExifEvidence, err |-> err]
Return(md, err) == [nilRecord |-> FALSE, rec |-> md, err |-> err]

-----------------------------------------------------------------------------
(* exif: ExtractExifData as a state machine. pc is the position in the     *)
(* function; a run-time panic ends the call at pc = "panic" with the read  *)
(* that raised it in ret.                                                  *)

\* helper := ValueExtractor{Data: data, TiffStart: tiffStart, Endian: endian}
Helper == [Data |-> data, TiffStart |-> offset + 10, Endian |-> endian]

Crash(cause) ==
    /\ pc' = "panic"
    /\ ret' = [panic |-> cause]
    /\ UNCHANGED <<offset, endian, ifd, stack, gps, metadata, walked, pipe>>

Finish(r) ==
    /\ pc' = "done"
    /\ ret' = r
    /\ UNCHANGED <<offset, endian, ifd, stack, gps, metadata, walked, pipe>>

ExFrame == UNCHANGED <<data, tail, accVars, b64Vars, mnVars, fnVars>>

\* findAPP1Segment without the test of the JPEG magic number
findAPP1SegmentNoMagic(d) ==
    LET found == {i \in 0..(d.len - 2) : At(d, i) = 255 /\ At(d, i + 1) = 225}
    IN  IF found # {}
        THEN [offset |-> CHOOSE i \in found : \A k \in found : i <= k, err |-> NoErr]
        ELSE [offset |-> 0, err |-> "cannot find EXIF block"]

\* findAPP1Segment with a search that keeps the last APP1 marker
findAPP1SegmentLast(d) ==
    LET found == {i \in 0..(d.len - 2) : At(d, i) = 255 /\ At(d, i + 1) = 225}
    IN  IF d.len < 2 \/ At(d, 0) # 255 \/ At(d, 1) # 216
        THEN [offset |-> 0, err |-> "file is not a JPEG"]
        ELSE IF found # {}
        THEN [offset |-> CHOOSE i \in found : \A k \in found : i >= k, err |-> NoErr]
        ELSE [offset |-> 0, err |-> "cannot find EXIF block"]

\* offset, err := findAPP1Segment(data)
findAPP1Segment(d) ==
    LET found == {i \in 0..(d.len - 2) : At(d, i) = 255 /\ At(d, i + 1) = 225}
    IN  IF d.len < 2 \/ At(d, 0) # 255 \/ At(d, 1) # 216
        THEN [offset |-> 0, err |-> "file is not a JPEG"]
        ELSE IF found # {}
        THEN [offset |-> CHOOSE i \in found : \A k \in found : i <= k, err |-> NoErr]
        ELSE [offset |-> 0, err |-> "cannot find EXIF block"]

FindAPP1 ==
    /\ pc = "start"
    /\ LET r == findAPP1Segment(data)
       IN  IF r.err # NoErr THEN Finish(ReturnNil(r.err))
           ELSE /\ pc' = "endian"
                /\ offset' = r.offset
                /\ UNCHANGED <<endian, ifd, stack, gps, metadata, walked, pipe, ret>>
    /\ ExFrame

\* endian, err := DetermineEndianess(data, offset)
DetermineEndian ==
    /\ pc = "endian"
    /\ LET r == DetermineEndianess(data, offset)
       IN  IF r.panic THEN Crash("byte-order marker")
           ELSE IF r.v.err # NoErr THEN Finish(ReturnNil(r.v.err))
           ELSE /\ pc' = "header"
                /\ endian' = r.v.endian
                /\ UNCHANGED <<offset, ifd, stack, gps, metadata, walked, pipe, ret>>
    /\ ExFrame

\* the entry count of the directory at off; the slice is not guarded
OpenDir(h, kind, off) ==
    IF ~ InSlice(h.Data, off, off + 2) THEN Panic
    ELSE Ok([kind |-> kind, base |-> off,
             count |-> Uint16(h.Endian, Sl(h.Data, off, off + 2)), j |-> 0])

\* ifdOffset, firstIfdIndex, entryCount; metadata := PhotoExifEvidence{}
ReadHeader ==
    /\ pc = "header"
    /\ LET tiffStart == offset + 10
       IN  IF ~ InSlice(data, tiffStart + 4, tiffStart + 8)
           THEN Crash("first-IFD offset")
           ELSE LET firstIfdIndex ==
                        tiffStart + Uint32(endian, Sl(data, tiffStart + 4, tiffStart + 8))
                    dir == OpenDir(Helper, "primary", firstIfdIndex)
                IN  IF dir.panic THEN Crash("entry count")
                    ELSE /\ pc' = "walk"
                         /\ ifd' = dir.v
                         /\ metadata' = PhotoExifEvidence
                         /\ UNCHANGED <<offset, endian, stack, gps, walked, pipe, ret>>
    /\ ExFrame

\* one iteration of the primary loop; a pointer tag opens its directory
PrimaryEntry ==
    /\ pc = "walk" /\ ifd.kind = "primary" /\ ifd.j < ifd.count
    /\ LET entryOffset == ifd.base + 2 + (ifd.j * 12)
           entry == ParseIFDEntry(data, entryOffset, endian)
           next == [ifd EXCEPT !.j = @ + 1]
       IN  IF entry.panic THEN Crash("entry")
           ELSE IF entry.v.Tag \in {EXIFSubIFD, GPSSubIFD}
           THEN LET pointer == GetUint32(Helper, entryOffset)
                    dir == OpenDir(Helper,
                                   IF entry.v.Tag = EXIFSubIFD THEN "exif" ELSE "gps",
                                   (offset + 10) + pointer)
                IN  IF dir.panic THEN Crash("entry count")
                    ELSE /\ ifd' = dir.v
                         /\ stack' = <<next>>
                         /\ gps' = GPSLocals
                         /\ UNCHANGED <<pc, offset, endian, metadata, walked, pipe, ret>>
           ELSE LET r == PrimaryTag(Helper, metadata, entry.v, entryOffset)
                IN  IF r.panic THEN Crash("value")
                    ELSE /\ metadata' = r.v
                         /\ ifd' = next
                         /\ UNCHANGED <<pc, offset, endian, stack, gps, walked, pipe, ret>>
    /\ ExFrame

\* ExifEntry with a walker that follows the two directory pointers: the
\* walk goes on in the directory the entry points to
ExifEntryFollow ==
    /\ pc = "walk" /\ ifd.kind = "exif" /\ ifd.j < ifd.count
    /\ LET entryOffset == ifd.base + 2 + (ifd.j * 12)
           entry == ParseIFDEntry(data, entryOffset, endian)
       IN  IF entry.panic THEN Crash("entry")
           ELSE IF entry.v.Tag \in {EXIFSubIFD, GPSSubIFD}
           THEN LET dir == OpenDir(Helper, "exif",
                                   (offset + 10) + GetUint32(Helper, entryOffset))
                IN  IF dir.panic THEN Crash("entry count")
                    ELSE /\ ifd' = dir.v
                         /\ UNCHANGED <<pc, offset, endian, stack, gps, metadata,
                                        walked, pipe, ret>>
           ELSE LET r == ExifTag(Helper, metadata, entry.v, entryOffset)
                IN  IF r.panic THEN Crash("value")
                    ELSE /\ metadata' = r.v
                         /\ ifd' = [ifd EXCEPT !.j = @ + 1]
                         /\ UNCHANGED <<pc, offset, endian, stack, gps, walked, pipe, ret>>
    /\ ExFrame

\* one iteration of the loop of ExtractExifSubIFD
ExifEntry ==
    /\ pc = "walk" /\ ifd.kind = "exif" /\ ifd.j < ifd.count
    /\ LET entryOffset == ifd.base + 2 + (ifd.j * 12)
           entry == ParseIFDEntry(data, entryOffset, endian)
       IN  IF entry.panic THEN Crash("entry")
           ELSE LET r == ExifTag(Helper, metadata, entry.v, entryOffset)
                IN  IF r.panic THEN Crash("value")
                    ELSE /\ metadata' = r.v
                         /\ ifd' = [ifd EXCEPT !.j = @ + 1]
                         /\ UNCHANGED <<pc, offset, endian, stack, gps, walked, pipe, ret>>
    /\ ExFrame

\* ExtractExifSubIFD returns to the primary loop
ExifReturn ==
    /\ pc = "walk" /\ ifd.kind = "exif" /\ ifd.j >= ifd.count
    /\ ifd' = stack[1]
    /\ stack' = <<>>
    /\ UNCHANGED <<pc, offset, endian, gps, metadata, walked, pipe, ret>>
    /\ ExFrame

\* one iteration of the loop of ExtractGPSIFD
GPSEntry ==
    /\ pc = "walk" /\ ifd.kind = "gps" /\ ifd.j < ifd.count
    /\ LET entryOffset == ifd.base + 2 + (ifd.j * 12)
           entry == ParseIFDEntry(data, entryOffset, endian)
       IN  IF entry.panic THEN Crash("entry")
           ELSE LET r == GPSTag(Helper, [md |-> metadata, g |-> gps], entry.v, entryOffset)
                IN  IF r.panic THEN Crash("value")
                    ELSE /\ metadata' = r.v.md
                         /\ gps' = r.v.g
                         /\ ifd' = [ifd EXCEPT !.j = @ + 1]
                         /\ UNCHANGED <<pc, offset, endian, stack, walked, pipe, ret>>
    /\ ExFrame

\* ExtractGPSIFD after its loop, and the return to the primary loop
GPSReturn ==
    /\ pc = "walk" /\ ifd.kind = "gps" /\ ifd.j >= ifd.count
    /\ metadata' = GPSSignCorrection(metadata, gps)
    /\ ifd' = stack[1]
    /\ stack' = <<>>
    /\ UNCHANGED <<pc, offset, endian, gps, walked, pipe, ret>>
    /\ ExFrame

\* CheckSoftware with strings.Contains in the place of strings.HasPrefix
CheckSoftwareContains ==
    /\ pc = "walk" /\ ifd.kind = "primary" /\ ifd.j >= ifd.count
    /\ walked' = metadata
    /\ LET soft == metadata["Processing.Software"]
       IN  IF ~ \E k \in 0..Len(soft) : HasPrefix(SubSeq(soft, k + 1, Len(soft)), HDRPlus)
           THEN pc' = "done" /\ ret' = Return(metadata, NoErr)
           ELSE pc' = "xmp" /\ UNCHANGED ret
    /\ UNCHANGED <<offset, endian, ifd, stack, gps, metadata, pipe>>
    /\ ExFrame

\* after the primary loop: if !strings.HasPrefix(Software, "HDR+")
CheckSoftware ==
    /\ pc = "walk" /\ ifd.kind = "primary" /\ ifd.j >= ifd.count
    /\ walked' = metadata
    /\ IF ~ HasPrefix(metadata["Processing.Software"], HDRPlus)
       THEN pc' = "done" /\ ret' = Return(metadata, NoErr)
       ELSE pc' = "xmp" /\ UNCHANGED ret
    /\ UNCHANGED <<offset, endian, ifd, stack, gps, metadata, pipe>>
    /\ ExFrame

\* output, err := ExtractXMPData(data); xmp := helper.DecodeXMPMeta(output)
ExtractXMP ==
    /\ pc = "xmp"
    /\ LET err == ExtractXMPDataErr(tail)
           xmp == DecodeXMPMeta(UnmarshalPacket(tail.xmp), tail.xmp.HdrPlusMakerNote)
       IN  IF err # NoErr THEN Finish(Return(metadata, err))
           ELSE IF xmp.HasExtendedXMP = "" THEN Finish(Return(metadata, NoErr))
           ELSE /\ pc' = "extxmp"
                /\ pipe' = [pipe EXCEPT !.xmp = xmp]
                /\ UNCHANGED <<offset, endian, ifd, stack, gps, metadata, walked, ret>>
    /\ ExFrame

\* output, err = ExtractExtXMPData(data, xmp...HasExtendedXMP); extXmp := ...;
\* cleanBase64 := SanitizeBase64String(extXmp...HdrPlusMakerNote)
ExtractExtXMP ==
    /\ pc = "extxmp"
    /\ LET err == ExtractExtXMPData(tail, pipe.xmp.HasExtendedXMP)
           extXmp == DecodeXMPMeta(UnmarshalPacket(tail.ext), tail.ext.HdrPlusMakerNote)
       IN  IF err # NoErr THEN Finish(Return(metadata, err))
           ELSE /\ pc' = "base64"
                /\ pipe' = [pipe EXCEPT
                               !.cleanBase64 = SanitizeBase64String(extXmp.HdrPlusMakerNote)]
                /\ UNCHANGED <<offset, endian, ifd, stack, gps, metadata, walked, ret>>
    /\ ExFrame

\* encrypted, err := StdEncoding.DecodeString(cleanBase64), then RawStdEncoding
DecodeBase64 ==
    /\ pc = "base64"
    /\ LET std == DecodeString(pipe.cleanBase64, TRUE)
           raw == DecodeString(pipe.cleanBase64, FALSE)
       IN  IF std.err /\ raw.err
           THEN Finish(Return(metadata, "illegal base64 data"))
           ELSE /\ pc' = "magic"
                /\ pipe' = [pipe EXCEPT !.encrypted = IF std.err THEN raw.buf ELSE std.buf]
                /\ UNCHANGED <<offset, endian, ifd, stack, gps, metadata, walked, ret>>
    /\ ExFrame

\* if string(encrypted[0:4]) == "HDRP"
CheckMagic ==
    /\ pc = "magic"
    /\ IF ~ InSlice(pipe.encrypted, 0, 4) THEN Crash("encrypted[0:4]")
       ELSE IF Sl(pipe.encrypted, 0, 4) # HDRP THEN Finish(Return(metadata, NoErr))
       ELSE /\ pc' = "decrypt"
            /\ UNCHANGED <<offset, endian, ifd, stack, gps, metadata, walked, pipe, ret>>
    /\ ExFrame

\* decrypted, err := DecryptHDRPBytes(encrypted[5:])
Decrypt ==
    /\ pc = "decrypt"
    /\ IF ~ InSlice(pipe.encrypted, 5, pipe.encrypted.len) THEN Crash("encrypted[5:]")
       ELSE LET r == DecryptHDRPBytes(Sl(pipe.encrypted, 5, pipe.encrypted.len))
            IN  IF r.err # NoErr THEN Finish(Return(metadata, r.err))
                ELSE /\ pc' = "gunzip"
                     /\ pipe' = [pipe EXCEPT !.decrypted = r.decrypted]
                     /\ UNCHANGED <<offset, endian, ifd, stack, gps, metadata, walked, ret>>
    /\ ExFrame

\* protoBytes, err := ReadGzipContent(decrypted)
Gunzip ==
    /\ pc = "gunzip"
    /\ LET r == ReadGzipContent(pipe.decrypted)
       IN  IF r.err # NoErr THEN Finish(Return(metadata, r.err))
           ELSE /\ pc' = "unmarshal"
                /\ pipe' = [pipe EXCEPT !.protoBytes = r.bytes]
                /\ UNCHANGED <<offset, endian, ifd, stack, gps, metadata, walked, ret>>
    /\ ExFrame

\* ConvertHDRPlusToMakerNote(notes, rawData): the projection of the decoded
\* message is the protobuf decoder's, kept as the bytes it was given and
\* whether it reported an error
ConvertHDRPlusToMakerNote(notes, rawData) ==
    [Raw |-> rawData, Manufacturer |-> "Google HDR+", Parsed |-> notes]

\* unmarshalOpts.Unmarshal(protoBytes, &hdrPlusNotes): an error is only
\* logged; metadata.Image.MakersNote = ...; return &metadata, nil
Unmarshal ==
    /\ pc = "unmarshal"
    /\ \E failed \in BOOLEAN :
          LET notes == [protoBytes |-> pipe.protoBytes, err |-> failed]
              md == [metadata EXCEPT !["Image.MakersNote"] =
                        ConvertHDRPlusToMakerNote(notes, Content(pipe.encrypted))]
          IN  /\ metadata' = md
              /\ pc' = "done"
              /\ ret' = Return(md, NoErr)
    /\ UNCHANGED <<offset, endian, ifd, stack, gps, walked, pipe>>
    /\ ExFrame

-----------------------------------------------------------------------------
(* Input files: the byte layouts the parsers read *)

\* a uint16 / uint32 / int32 as bytes in byte order e
U16B(e, v) == IF e = "LE" THEN <<v % 256, v \div 256>> ELSE <<v \div 256, v % 256>>
Rev(b) == [k \in 1..Len(b) |-> b[Len(b) + 1 - k]]
U32B(e, v) ==
    LET le == <<v % 256, (v \div 256) % 256, (v \div 65536) % 256, v \div 16777216>>
    IN  IF e = "LE" THEN le ELSE Rev(le)
I32B(e, v) ==
    IF v >= 0 THEN U32B(e, v)
    ELSE LET pos == U32B(e, -v - 1) IN [k \in 1..4 |-> 255 - pos[k]]
\* a short stored inline: the value in the first two of the four value bytes
Inline16(e, v) == U16B(e, v) \o <<0, 0>>
\* a 12-byte IFD entry: tag, type, count, four value bytes
EntryB(e, tag, typ, count, val4) ==
    U16B(e, tag) \o U16B(e, typ) \o U32B(e, count) \o val4
\* the byte-order marker
MarkB(e) == IF e = "LE" THEN <<73, 73>> ELSE IF e = "BE" THEN <<77, 77>> ELSE <<73, 77>>

\* An Apple MakerNote: prefix, byte-order marker, a declared entry count,
\* three entries (MakerNoteVersion, BurstUUID, AccelerationVector) and the
\* values the last two point to (offsets are relative to the MakerNote).
AppleNote(e, prefix, declared) ==
    Flatten(<<prefix, MarkB(e), U16B(e, declared),
              EntryB(e, 1, 9, 1, I32B(e, 14)),
              EntryB(e, 11, 2, 5, U32B(e, 52)),
              EntryB(e, 8, 10, 3, U32B(e, 57)),
              <<65, 66, 67, 68, 0>>,
              I32B(e, 1), I32B(e, 2), I32B(e, 3), I32B(e, 4), I32B(e, -1), I32B(e, 1)>>)
AppleNoteLen == Len(AppleNote("LE", ApplePrefix, 3))

\* "Nikon\x00" and six more bytes: not the Apple prefix
OtherPrefix == <<78, 105, 107, 111, 110, 0, 2, 16, 0, 0, 0, 0>>

-----------------------------------------------------------------------------
(* One call of DetectAndParse on a MakerNote entry *)

MnPad == 2      \* bytes of the buffer in front of the MakerNote

InitMn ==
    /\ \E e \in {"LE", "BE", "bad"}, prefix \in {ApplePrefix, OtherPrefix},
          declared \in {2, 3, 4}, n \in 0..AppleNoteLen, fe \in {"LE", "BE"} :
          /\ mnE = [Data |-> Bytes([k \in 1..MnPad |-> 0] \o AppleNote(e, prefix, declared)),
                    TiffStart |-> 0, Endian |-> fe]
          /\ mnEntry = [Tag |-> MakerNote, DataType |-> 7, Count |-> n, ValueOffset |-> MnPad]
    /\ mnIdx = 0
    /\ mnLast = "none"
    /\ mnRet = "none"
    /\ mnPc = "call"
    /\ AccIdle /\ B64Idle /\ ExIdle /\ FnIdle

\* manufacturer, parsed, err := makernotes.DetectAndParse(helper, entry)
CallDetectAndParse ==
    /\ mnPc = "call"
    /\ LET r == DetectAndParse(mnE, mnEntry)
       IN  IF r.panic
           THEN mnPc' = "panic" /\ UNCHANGED mnRet
           ELSE mnPc' = "done" /\ mnRet' = r.v
    /\ UNCHANGED <<mnE, mnEntry, mnIdx, mnLast, accVars, b64Vars, exVars, fnVars>>

NextMn == CallDetectAndParse

SpecMn == InitMn /\ [][NextMn]_vars

\* the MakerNote bytes the parsers are given
MnRaw == GetByteArray(mnE, mnEntry, mnE.TiffStart + mnEntry.ValueOffset)
\* parser p matches: the input is long enough and starts with its prefix
MnMatches(p) == p = "Apple" /\ Len(MnRaw) >= 22 /\ SubSeq(MnRaw, 1, 12) = ApplePrefix
MnFirstMatch == IF \E i \in 1..Len(Parsers) : MnMatches(Parsers[i])
                THEN CHOOSE i \in 1..Len(Parsers) :
                        MnMatches(Parsers[i]) /\ \A k \in 1..(i - 1) : ~ MnMatches(Parsers[k])
                ELSE Len(Parsers) + 1

\* C6 (as claimed): the parsers are tried in list order; one that does not
\* match is passed over, so that the loop goes on to the next parser (and
\* past the last one to the return that follows the loop), and the first
\* that matches gives the manufacturer.
C6_OrderedDispatch ==
    mnPc = "done" =>
        IF MnFirstMatch <= Len(Parsers)
        THEN /\ mnRet.tried = MnFirstMatch
             /\ mnRet.manufacturer = Manufacturer(Parsers[MnFirstMatch])
        ELSE /\ mnRet.tried = Len(Parsers)
             /\ mnRet.line = 26

\* C7 (as claimed): when no parser matches, the call returns "Unknown", a
\* nil map and a non-nil error, and does not panic.
C7_UnknownOnNoMatch ==
    (mnPc # "call" /\ MnFirstMatch > Len(Parsers)) =>
        /\ mnPc = "done"
        /\ mnRet.manufacturer = "Unknown"
        /\ mnRet.nilMap
        /\ mnRet.err # NoErr

\* the byte order the MakerNote declares at its bytes 12 and 13
MnOrder ==
    IF MnRaw[13] = 73 /\ MnRaw[14] = 73 THEN "LE"
    ELSE IF MnRaw[13] = 77 /\ MnRaw[14] = 77 THEN "BE" ELSE "bad"
\* the call reaches the entry loop of AppleParser.Parse
MnWalked == mnPc # "call" /\ MnMatches("Apple") /\ MnOrder # "bad"
\* the entry count the MakerNote declares at its bytes 14 and 15
MnDeclared == Uint16(MnOrder, SubSeq(MnRaw, 15, 16))
\* the entries the loop of AppleParser.Parse goes through
MnEntryCount == AppleEntryCount(Bytes(MnRaw), MnOrder)

\* C20: AppleParser.Parse goes through at most floor((len(raw) - 16) / 12)
\* entries whatever count the MakerNote declares, so that the 12 bytes of
\* every entry it reads at 16 + 12 * j lie inside raw.
C20_EntryCountClamped ==
    MnWalked =>
        /\ MnEntryCount <= (Len(MnRaw) - 16) \div 12
        /\ MnEntryCount <= MnDeclared
        /\ \A j \in 0..(MnEntryCount - 1) :
              /\ 16 + (12 * j) + 12 <= Len(MnRaw)
              /\ ~ ParseIFDEntry(Bytes(MnRaw), 16 + (12 * j), MnOrder).panic
        /\ mnPc = "done" => mnRet.entries = MnEntryCount

\* a MakerNote that declares four entries and holds one whole entry and a
\* part of the second: the call returns after one entry
C20_Witness ==
    /\ MnWalked /\ mnPc = "done"
    /\ MnDeclared = 4 /\ Len(MnRaw) = 39
    /\ mnRet.entries = 1
    /\ mnRet.err = NoErr
    /\ DOMAIN mnRet.parsed = {"MakerNoteVersion"}

-----------------------------------------------------------------------------
(* One call of ExtractExifData: the input files *)

\* FF D8, the APP1 marker, a segment length, "Exif\0\0" and the TIFF header
\* with the first directory at TIFF offset 8 (APP1 at 2, TIFF at 12)
ExifHeader(magic, app, e) ==
    Flatten(<<<<255, magic, 255, app, 0, 16>>, <<69, 120, 105, 102, 0, 0>>,
              MarkB(e), U16B(e, 42), U32B(e, 8)>>)

\* a directory: entry count, entries, next-directory offset
IFDB(e, entries) == Flatten(<<U16B(e, Len(entries)), Flatten(entries), U32B(e, 0)>>)
IFDLen(n) == 2 + (12 * n) + 4
RationalB(e, n, d) == U32B(e, n) \o U32B(e, d)

\* "Canon\0", "2024:02:29 10:11:12\0", "HDR+ 1.0\0"
CanonZ == <<67, 97, 110, 111, 110, 0>>
DateZ == <<50, 48, 50, 52, 58, 48, 50, 58, 50, 57, 32, 49, 48, 58, 49, 49, 58, 49, 50, 0>>
HdrSoftwareZ == HDRPlus \o <<32, 49, 46, 48, 0>>

\* 51 deg 30' 26.30" and 0 deg 7' 39", as three rationals each
LatB(e) == Flatten(<<RationalB(e, 51, 1), RationalB(e, 30, 1), RationalB(e, 2630, 100)>>)
LongB(e) == Flatten(<<RationalB(e, 0, 1), RationalB(e, 7, 1), RationalB(e, 39, 1)>>)

\* A file with a primary directory (Make, ModifyDate and the two pointers),
\* an EXIF directory (ISO, FNumber) and a GPS directory (LatitudeRef,
\* Latitude), each followed by the values it points to.
WholeFile(magic, app, e) ==
    LET oMake == 8 + IFDLen(4)
        oDate == oMake + Len(CanonZ)
        oExif == oDate + Len(DateZ)
        oFNum == oExif + IFDLen(2)
        oGps == oFNum + 8
        oLat == oGps + IFDLen(2)
    IN  Flatten(<<ExifHeader(magic, app, e),
                  IFDB(e, <<EntryB(e, Make, 2, Len(CanonZ), U32B(e, oMake)),
                            EntryB(e, ModifyDate, 2, Len(DateZ), U32B(e, oDate)),
                            EntryB(e, EXIFSubIFD, 4, 1, U32B(e, oExif)),
                            EntryB(e, GPSSubIFD, 4, 1, U32B(e, oGps))>>),
                  CanonZ, DateZ,
                  IFDB(e, <<EntryB(e, ISO, 3, 1, Inline16(e, 100)),
                            EntryB(e, FNumber, 5, 1, U32B(e, oFNum))>>),
                  RationalB(e, 28, 10),
                  IFDB(e, <<EntryB(e, LatitudeRef, 2, 2, <<83, 0, 0, 0>>),
                            EntryB(e, Latitude, 5, 3, U32B(e, oLat))>>),
                  LatB(e)>>)

\* every prefix of WholeFile, with and without the JPEG magic number, the
\* APP1 marker and a valid byte-order marker
TruncatedFiles ==
    {SubSeq(WholeFile(magic, app, e), 1, n) :
        magic \in {216, 217}, app \in {225, 224}, e \in {"LE", "BE", "bad"},
        n \in 0..Len(WholeFile(216, 225, "LE"))}

\* the orders of the four coordinate entries of a GPS directory
Orders == {p \in [1..4 -> 1..4] : \A i, k \in 1..4 : i # k => p[i] # p[k]}

\* A file whose GPS directory holds LatitudeRef, Latitude, LongitudeRef and
\* Longitude in the order p, then AltitudeRef and Altitude.
GPSFile(e, p, latRef, longRef, altRef) ==
    LET oGps == 8 + IFDLen(1)
        oLat == oGps + IFDLen(6)
        oLong == oLat + 24
        oAlt == oLong + 24
        coords == <<EntryB(e, LatitudeRef, 2, 2, <<latRef, 0, 0, 0>>),
                    EntryB(e, Latitude, 5, 3, U32B(e, oLat)),
                    EntryB(e, LongitudeRef, 2, 2, <<longRef, 0, 0, 0>>),
                    EntryB(e, Longitude, 5, 3, U32B(e, oLong))>>
    IN  Flatten(<<ExifHeader(216, 225, e),
                  IFDB(e, <<EntryB(e, GPSSubIFD, 4, 1, U32B(e, oGps))>>),
                  IFDB(e, [i \in 1..4 |-> coords[p[i]]]
                          \o <<EntryB(e, AltitudeRef, 1, 1, <<altRef, 0, 0, 0>>),
                               EntryB(e, Altitude, 5, 1, U32B(e, oAlt))>>),
                  LatB(e), LongB(e), RationalB(e, 35, 1)>>)

\* 78 'N', 83 'S', 69 'E', 87 'W'
GPSFiles ==
    {GPSFile(e, p, latRef, longRef, altRef) :
        e \in {"LE", "BE"}, p \in Orders, latRef \in {78, 83},
        longRef \in {69, 87}, altRef \in {0, 1}}

\* A file whose Software is "HDR+ 1.0", and whose EXIF directory holds an
\* Apple MakerNote.
HdrFile(e) ==
    LET oSoft == 8 + IFDLen(2)
        oExif == oSoft + Len(HdrSoftwareZ)
        oNote == oExif + IFDLen(1)
    IN  Flatten(<<ExifHeader(216, 225, e),
                  IFDB(e, <<EntryB(e, Software, 2, Len(HdrSoftwareZ), U32B(e, oSoft)),
                            EntryB(e, EXIFSubIFD, 4, 1, U32B(e, oExif))>>),
                  HdrSoftwareZ,
                  IFDB(e, <<EntryB(e, MakerNote, 7, AppleNoteLen, U32B(e, oNote))>>),
                  AppleNote(e, ApplePrefix, 3)>>)

\* date strings: "2024:02:29 10:11:12\0", "2021:12:31 23:59:59\0", and two
\* that do not parse: "2024-02-29 10:11:12\0" and "2023:02:29 10:11:12\0"
Date2Z == <<50, 48, 50, 49, 58, 49, 50, 58, 51, 49, 32, 50, 51, 58, 53, 57, 58, 53, 57, 0>>
DashDateZ == <<50, 48, 50, 52, 45, 48, 50, 45, 50, 57, 32, 49, 48, 58, 49, 49, 58, 49, 50, 0>>
NoDayDateZ == <<50, 48, 50, 51, 58, 48, 50, 58, 50, 57, 32, 49, 48, 58, 49, 49, 58, 49, 50, 0>>
DateStrings == {DateZ, Date2Z, DashDateZ, NoDayDateZ}

\* A file whose primary directory holds ModifyDate twice (values m1, m2),
\* then Make and the EXIF pointer, and whose EXIF directory holds
\* DateCaptured (c), CreateDate (k) and ISO.
DateFile(e, m1, m2, c, k) ==
    LET oM1 == 8 + IFDLen(4)
        oM2 == oM1 + Len(m1)
        oMake == oM2 + Len(m2)
        oExif == oMake + Len(CanonZ)
        oC == oExif + IFDLen(3)
        oK == oC + Len(c)
    IN  Flatten(<<ExifHeader(216, 225, e),
                  IFDB(e, <<EntryB(e, ModifyDate, 2, Len(m1), U32B(e, oM1)),
                            EntryB(e, ModifyDate, 2, Len(m2), U32B(e, oM2)),
                            EntryB(e, Make, 2, Len(CanonZ), U32B(e, oMake)),
                            EntryB(e, EXIFSubIFD, 4, 1, U32B(e, oExif))>>),
                  m1, m2, CanonZ,
                  IFDB(e, <<EntryB(e, DateCaptured, 2, Len(c), U32B(e, oC)),
                            EntryB(e, CreateDate, 2, Len(k), U32B(e, oK)),
                            EntryB(e, ISO, 3, 1, Inline16(e, 100))>>),
                  c, k>>)
DateFiles ==
    {DateFile(e, m1, m2, c, k) :
        e \in {"LE", "BE"}, m1 \in DateStrings, m2 \in DateStrings,
        c \in {DateZ, DashDateZ}, k \in {Date2Z, NoDayDateZ}}

\* A file whose primary directory points to two GPS directories: the first
\* holds AltitudeRef (r1), Altitude (35) and AltitudeRef again (r2), the
\* second AltitudeRef (r3) and, when alt2 > 0, Altitude (alt2), else an
\* entry with a tag no table has.
UnknownTag == 255
AltFile(e, r1, r2, r3, alt2) ==
    LET oGps1 == 8 + IFDLen(2)
        oAlt1 == oGps1 + IFDLen(3)
        oGps2 == oAlt1 + 8
        oAlt2 == oGps2 + IFDLen(2)
    IN  Flatten(<<ExifHeader(216, 225, e),
                  IFDB(e, <<EntryB(e, GPSSubIFD, 4, 1, U32B(e, oGps1)),
                            EntryB(e, GPSSubIFD, 4, 1, U32B(e, oGps2))>>),
                  IFDB(e, <<EntryB(e, AltitudeRef, 1, 1, <<r1, 0, 0, 0>>),
                            EntryB(e, Altitude, 5, 1, U32B(e, oAlt1)),
                            EntryB(e, AltitudeRef, 1, 1, <<r2, 0, 0, 0>>)>>),
                  RationalB(e, 35, 1),
                  IFDB(e, <<EntryB(e, AltitudeRef, 1, 1, <<r3, 0, 0, 0>>),
                            EntryB(e, IF alt2 > 0 THEN Altitude ELSE UnknownTag,
                                   5, 1, U32B(e, oAlt2))>>),
                  RationalB(e, alt2, 1)>>)
AltRefs == {0, 1, 3}

\* A file with an entry of a tag foreign to the directory at the head of
\* each of its three directories: the primary directory holds the foreign
\* entry, Make "ab", the two pointers and Model "cd", the EXIF directory
\* the foreign entry and ISO 100, the GPS directory the foreign entry,
\* AltitudeRef 1 and Altitude 35.  A foreign entry holds the string "Z".
Foreign(e, tag) == EntryB(e, tag, 2, 2, <<90, 0, 0, 0>>)
UnkFile(e, up, ux, ug) ==
    LET oExif == 8 + IFDLen(5)
        oGps == oExif + IFDLen(2)
        oAlt == oGps + IFDLen(3)
    IN  Flatten(<<ExifHeader(216, 225, e),
                  IFDB(e, <<Foreign(e, up),
                            EntryB(e, Make, 2, 3, <<97, 98, 0, 0>>),
                            EntryB(e, EXIFSubIFD, 4, 1, U32B(e, oExif)),
                            EntryB(e, GPSSubIFD, 4, 1, U32B(e, oGps)),
                            EntryB(e, Model, 2, 3, <<99, 100, 0, 0>>)>>),
                  IFDB(e, <<Foreign(e, ux),
                            EntryB(e, ISO, 3, 1, Inline16(e, 100))>>),
                  IFDB(e, <<Foreign(e, ug),
                            EntryB(e, AltitudeRef, 1, 1, <<1, 0, 0, 0>>),
                            EntryB(e, Altitude, 5, 1, U32B(e, oAlt))>>),
                  RationalB(e, 35, 1)>>)
UnkFiles ==
    {UnkFile(e, up, ux, ug) :
        e \in {"LE", "BE"}, up \in {UnknownTag, LatitudeRef, ISO},
        ux \in {UnknownTag, Make, LatitudeRef}, ug \in {UnknownTag, Make, ISO}}
AltFiles ==
    {AltFile(e, r1, r2, r3, alt2) :
        e \in {"LE", "BE"}, r1 \in AltRefs, r2 \in AltRefs, r3 \in AltRefs,
        alt2 \in {0, 20}}

\* the bytes the protobuf decoder is meant to receive
MaxPayload == 3
Payload == [k \in 1..MaxPayload |-> 9 + k]

\* a stored DEFLATE block (BTYPE 00) holding bs, final or not
StoredBlock(final, bs) ==
    <<final, Len(bs) % 256, Len(bs) \div 256,
      255 - (Len(bs) % 256), 255 - (Len(bs) \div 256)>> \o bs
\* a gzip header without optional fields, and the trailer for bs
GzipHeaderB == <<31, 139, 8, 0, 0, 0, 0, 0, 0, 255>>
GzipTrailerB(bs) == BytesLE(ChecksumIEEE(bs)) \o BytesLE(W32(0, Len(bs)))
GzipB(bs) == Flatten(<<GzipHeaderB, StoredBlock(1, bs), GzipTrailerB(bs)>>)

\* what DecryptHDRPBytes may be given: a whole gzip stream and each of its
\* proper prefixes, a stream of two blocks, one with a wrong checksum, one
\* followed by a stray byte, one with a header that is not gzip's, and a
\* bare DEFLATE stream
Streams ==
    {SubSeq(GzipB(Payload), 1, n) : n \in 0..Len(GzipB(Payload))}
    \cup {Flatten(<<GzipHeaderB, StoredBlock(0, <<Payload[1]>>),
                    StoredBlock(1, Tail(Payload)), GzipTrailerB(Payload)>>),
          Flatten(<<GzipHeaderB, StoredBlock(1, Payload), GzipTrailerB(<<>>)>>),
          GzipB(Payload) \o <<0>>,
          <<31, 139, 7>> \o SubSeq(GzipB(Payload), 4, Len(GzipB(Payload))),
          StoredBlock(1, Payload)}

\* the HdrPlusMakernote attribute that decrypts to stream z: the cipher is
\* an exclusive-or with a key stream that does not depend on the data
NoteOf(z) == EncodeToString(Flatten(<<HDRP, <<0>>, DecryptHDRPBytes(z).decrypted>>))

\* attributes: absent; "A"; "SERS" (HDR); "SERSUA==" (HDRP); "SERSUAA="
\* (HDRP and the separator); "QUJDRA==" (ABCD); one with '=' inside; the
\* attributes of Streams; and one of them broken by a line feed and a space
Notes ==
    {<<>>, <<65>>, <<83, 69, 82, 83>>, <<83, 69, 82, 83, 85, 65, 61, 61>>,
     <<83, 69, 82, 83, 85, 65, 65, 61>>, <<81, 85, 74, 68, 82, 65, 61, 61>>,
     <<83, 69, 61, 82, 83, 85, 65, 61>>}
    \cup {NoteOf(z) : z \in Streams}
    \cup {<<10>> \o SubSeq(NoteOf(GzipB(Payload)), 1, 4) \o <<32>>
               \o SubSeq(NoteOf(GzipB(Payload)), 5, Len(NoteOf(GzipB(Payload))))}

\* the packets after the EXIF block
StdPackets ==
    {NoPacket,
     [NoPacket EXCEPT !.found = "noend"],
     [NoPacket EXCEPT !.found = "ok", !.HasExtendedXMP = "GUID"],
     [NoPacket EXCEPT !.found = "ok", !.xml = TRUE],
     [NoPacket EXCEPT !.found = "ok", !.xml = TRUE, !.HasExtendedXMP = "GUID"],
     [NoPacket EXCEPT !.found = "ok", !.stored = TRUE, !.HasExtendedXMP = "GUID"]}
ExtPackets ==
    {NoPacket,
     [NoPacket EXCEPT !.found = "noend", !.guid = "GUID"],
     [NoPacket EXCEPT !.found = "ok", !.guid = "OTHER", !.xml = TRUE],
     [NoPacket EXCEPT !.found = "ok", !.guid = "GUID",
                      !.HdrPlusMakerNote = NoteOf(GzipB(Payload))],
     [NoPacket EXCEPT !.found = "ok", !.guid = "GUID", !.stored = TRUE,
                      !.HdrPlusMakerNote = <<65>>,
                      !.decoded = NoteOf(GzipB(Payload))]}
    \cup {[NoPacket EXCEPT !.found = "ok", !.guid = "GUID", !.xml = TRUE,
                           !.HdrPlusMakerNote = n] : n \in Notes}
NoTail == [xmp |-> NoPacket, ext |-> NoPacket]
Tails ==
    {[xmp |-> x, ext |-> NoPacket] : x \in StdPackets}
    \cup {[xmp |-> [NoPacket EXCEPT !.found = "ok", !.xml = TRUE, !.HasExtendedXMP = "GUID"],
           ext |-> x] : x \in ExtPackets}
    \cup {[xmp |-> [NoPacket EXCEPT !.found = "ok", !.stored = TRUE,
                                      !.HasExtendedXMP = "GUID"],
           ext |-> x] : x \in {p \in ExtPackets : p.stored}}

\* A file whose EXIF directory holds two MakerNote entries and ISO 100.  A
\* MakerNote is an Apple one ("apple"), one with another prefix ("other"),
\* or an Apple one whose entry declares 10 bytes ("short").
NoteKinds == {"apple", "other", "short"}
NoteFile(e, k1, k2) ==
    LET oExif == 8 + IFDLen(1)
        oNote1 == oExif + IFDLen(3)
        oNote2 == oNote1 + AppleNoteLen
        note(k) == AppleNote(e, IF k = "other" THEN OtherPrefix ELSE ApplePrefix, 3)
        count(k) == IF k = "short" THEN 10 ELSE AppleNoteLen
    IN  Flatten(<<ExifHeader(216, 225, e),
                  IFDB(e, <<EntryB(e, EXIFSubIFD, 4, 1, U32B(e, oExif))>>),
                  IFDB(e, <<EntryB(e, MakerNote, 7, count(k1), U32B(e, oNote1)),
                            EntryB(e, MakerNote, 7, count(k2), U32B(e, oNote2)),
                            EntryB(e, ISO, 3, 1, Inline16(e, 100))>>),
                  note(k1), note(k2)>>)
NoteFiles == {NoteFile(e, k1, k2) : e \in {"LE", "BE"}, k1 \in NoteKinds, k2 \in NoteKinds}

\* The Apple MakerNote of AppleNote with the type t in its three entries.
TypedNote(e, t) ==
    Flatten(<<ApplePrefix, MarkB(e), U16B(e, 3),
              EntryB(e, 1, t, 1, I32B(e, 14)),
              EntryB(e, 11, t, 5, U32B(e, 52)),
              EntryB(e, 8, t, 3, U32B(e, 57)),
              <<65, 66, 67, 68, 0>>,
              I32B(e, 1), I32B(e, 2), I32B(e, 3), I32B(e, 4), I32B(e, -1), I32B(e, 1)>>)

\* A file with the four kinds of directory, the entries of each with one
\* type: the primary directory (type tp) holds Make "ab" and the two
\* pointers, the EXIF directory (tx) a MakerNote and ISO 100, the GPS
\* directory (tg) AltitudeRef 1 and Altitude 35, the Apple MakerNote (tm)
\* its three entries.
TypedFile(e, tp, tx, tg, tm) ==
    LET oExif == 8 + IFDLen(3)
        oGps == oExif + IFDLen(2)
        oAlt == oGps + IFDLen(2)
        oNote == oAlt + 8
    IN  Flatten(<<ExifHeader(216, 225, e),
                  IFDB(e, <<EntryB(e, Make, tp, 3, <<97, 98, 0, 0>>),
                            EntryB(e, EXIFSubIFD, tp, 1, U32B(e, oExif)),
                            EntryB(e, GPSSubIFD, tp, 1, U32B(e, oGps))>>),
                  IFDB(e, <<EntryB(e, MakerNote, tx, AppleNoteLen, U32B(e, oNote)),
                            EntryB(e, ISO, tx, 1, Inline16(e, 100))>>),
                  IFDB(e, <<EntryB(e, AltitudeRef, tg, 1, <<1, 0, 0, 0>>),
                            EntryB(e, Altitude, tg, 1, U32B(e, oAlt))>>),
                  RationalB(e, 35, 1),
                  TypedNote(e, tm)>>)
\* ASCII, UNDEFINED and a type that TIFF does not define
Types == {2, 7, 65535}
TypedFiles ==
    {TypedFile(e, tp, tx, tg, tm) :
        e \in {"LE", "BE"}, tp \in Types, tx \in Types, tg \in Types, tm \in Types}

\* Files with directory pointers that point back.  In BackFile the primary
\* directory holds Make "ab", a pointer (tag ptr) to the primary directory
\* itself and Model "cd".  In SelfFile the primary directory holds a
\* pointer (tag ptr) to a directory that holds an EXIFSubIFD entry that
\* points to that directory, a GPSSubIFD entry that points to the primary
\* directory, and ISO 100.
BackFile(e, ptr) ==
    Flatten(<<ExifHeader(216, 225, e),
              IFDB(e, <<EntryB(e, Make, 2, 3, <<97, 98, 0, 0>>),
                        EntryB(e, ptr, 4, 1, U32B(e, 8)),
                        EntryB(e, Model, 2, 3, <<99, 100, 0, 0>>)>>)>>)
SelfFile(e, ptr) ==
    LET oSub == 8 + IFDLen(1)
    IN  Flatten(<<ExifHeader(216, 225, e),
                  IFDB(e, <<EntryB(e, ptr, 4, 1, U32B(e, oSub))>>),
                  IFDB(e, <<EntryB(e, EXIFSubIFD, 4, 1, U32B(e, oSub)),
                            EntryB(e, GPSSubIFD, 4, 1, U32B(e, 8)),
                            EntryB(e, ISO, 3, 1, Inline16(e, 100))>>)>>)
LoopFiles ==
    {BackFile(e, ptr) : e \in {"LE", "BE"}, ptr \in {EXIFSubIFD, GPSSubIFD}}
    \cup {SelfFile(e, ptr) : e \in {"LE", "BE"}, ptr \in {EXIFSubIFD, GPSSubIFD}}

\* Files with more than one APP1 marker.  After the magic number come the
\* bytes pre, an APP1 segment whose six bytes before the byte-order marker
\* are hdr and whose primary directory holds Make "ab", and the bytes post.
\* XXSegment is an APP1 segment with the byte-order marker "XX";
\* APP0Segment is an APP0 segment with the bytes FF E1 in its payload;
\* SecondSegment is an APP1 segment with Make "cd".
ExifZ == <<69, 120, 105, 102, 0, 0>>
XXSegment == <<255, 225, 0, 16>> \o ExifZ \o <<88, 88, 0, 42, 0, 0, 0, 8>>
APP0Segment == <<255, 224, 0, 16, 74, 70, 73, 70, 0, 1, 255, 225, 0, 1, 0, 1, 0, 0>>
SecondSegment(e) ==
    Flatten(<<<<255, 225, 0, 16>>, ExifZ, MarkB(e), U16B(e, 42), U32B(e, 8),
              IFDB(e, <<EntryB(e, Make, 2, 3, <<99, 100, 0, 0>>)>>)>>)
FirstFile(pre, hdr, e, post) ==
    Flatten(<<<<255, 216>>, pre, <<255, 225, 0, 16>>, hdr, MarkB(e), U16B(e, 42),
              U32B(e, 8), IFDB(e, <<EntryB(e, Make, 2, 3, <<97, 98, 0, 0>>)>>), post>>)
Headers == {ExifZ, <<104, 116, 116, 112, 58, 47>>, <<0, 0, 0, 0, 0, 0>>}
FirstCases ==
    {[file |-> FirstFile(pre, hdr, e, post), pre |-> pre, hdr |-> hdr] :
        pre \in {<<>>, XXSegment, APP0Segment}, hdr \in Headers,
        e \in {"LE", "BE"}, post \in {<<>>, SecondSegment("LE")}}
FirstFiles == {c.file : c \in FirstCases}

\* A file whose primary directory holds Software (stored inline when it
\* fits) and Make "a"; "HDR+\0", "HDR\0", "hdr+ 1\0", "xHDR+\0", "HDR+ 9\0"
SoftFile(e, softZ) ==
    Flatten(<<ExifHeader(216, 225, e),
              IFDB(e, <<EntryB(e, Software, 2, Len(softZ),
                               IF Len(softZ) <= 4
                               THEN [k \in 1..4 |-> IF k <= Len(softZ) THEN softZ[k] ELSE 0]
                               ELSE U32B(e, 8 + IFDLen(2))),
                        EntryB(e, Make, 2, 2, <<97, 0, 0, 0>>)>>),
              softZ>>)
Softwares == {<<72, 68, 82, 43, 0>>, <<72, 68, 82, 0>>, <<104, 100, 114, 43, 32, 49, 0>>, <<120, 72, 68, 82, 43, 0>>, <<72, 68, 82, 43, 32, 57, 0>>}
SoftFiles == {SoftFile(e, z) : e \in {"LE", "BE"}, z \in Softwares}
\* both packets whole, with the attribute of a whole gzip stream
GoodTail ==
    [xmp |-> [NoPacket EXCEPT !.found = "ok", !.xml = TRUE, !.HasExtendedXMP = "GUID"],
     ext |-> [NoPacket EXCEPT !.found = "ok", !.guid = "GUID", !.xml = TRUE,
                              !.HdrPlusMakerNote = NoteOf(GzipB(Payload))]]

Inputs ==
    {[data |-> f, tail |-> t] : f \in SoftFiles, t \in {NoTail, GoodTail}} \cup
    {[data |-> f, tail |-> NoTail] : f \in TruncatedFiles \cup GPSFiles \cup DateFiles \cup AltFiles
                                   \cup UnkFiles \cup NoteFiles
                                   \cup TypedFiles \cup LoopFiles \cup FirstFiles}
    \cup {[data |-> HdrFile(e), tail |-> t] : e \in {"LE", "BE"}, t \in Tails}

Init ==
    /\ \E in \in Inputs : data = Bytes(in.data) /\ tail = in.tail
    /\ pc = "start"
    /\ offset = 0
    /\ endian = "none"
    /\ ifd = [kind |-> "none", base |-> 0, count |-> 0, j |-> 0]
    /\ stack = <<>>
    /\ gps = GPSLocals
    /\ metadata = PhotoExifEvidence
    /\ walked = PhotoExifEvidence
    /\ pipe = PipeLocals
    /\ ret = "none"
    /\ AccIdle /\ B64Idle /\ MnIdle /\ FnIdle

Next ==
    \/ FindAPP1 \/ DetermineEndian \/ ReadHeader
    \/ PrimaryEntry \/ ExifEntry \/ ExifReturn \/ GPSEntry \/ GPSReturn
    \/ CheckSoftware
    \/ ExtractXMP \/ ExtractExtXMP \/ DecodeBase64 \/ CheckMagic \/ Decrypt
    \/ Gunzip \/ Unmarshal

Spec == Init /\ [][Next]_vars

\* The call as it runs, on the files with directory pointers that point
\* back, the files with two GPS directories and a file that goes through
\* every stage after the walk: a call that can take a step takes it.
RunInputs ==
    {[data |-> f, tail |-> NoTail] : f \in LoopFiles \cup AltFiles}
    \cup {[data |-> SoftFile("LE", <<72, 68, 82, 43, 0>>), tail |-> t] : t \in {NoTail, GoodTail}}
InitRun == Init /\ \E in \in RunInputs : data.arr = in.data /\ tail = in.tail
SpecRun == InitRun /\ [][Next]_vars /\ WF_vars(Next)

-----------------------------------------------------------------------------
(* Properties of one call of ExtractExifData *)

\* the input is FatalInput: no JPEG magic number, no APP1 marker, or a
\* byte-order marker after the first APP1 marker that is neither II nor MM
NotJPEG == data.len < 2 \/ At(data, 0) # 255 \/ At(data, 1) # 216
Markers == {i \in 0..(data.len - 2) : At(data, i) = 255 /\ At(data, i + 1) = 225}
FirstMarker == CHOOSE i \in Markers : \A k \in Markers : i <= k
BadOrder ==
    /\ Markers # {}
    /\ FirstMarker + 11 < data.len
    /\ <<At(data, FirstMarker + 10), At(data, FirstMarker + 11)>>
           \notin {<<73, 73>>, <<77, 77>>}
FatalInput == NotJPEG \/ Markers = {} \/ BadOrder

\* C1: a call that returns gives a nil record exactly when the input is
\* FatalInput, and then with a non-nil error; a FatalInput is rejected
\* before anything past the byte-order marker is read; the pair (nil
\* record, nil error) is never returned.
C1_NilRecordIffFatal ==
    /\ pc = "done" => /\ ret.nilRecord <=> FatalInput
                      /\ ret.nilRecord => ret.err # NoErr
    /\ FatalInput => pc \in {"start", "endian", "done"}

\* C1 witness: a JPEG with an APP1 marker and a byte-order marker that is
\* neither II nor MM was rejected with a nil record and an error
C1_Witness ==
    /\ pc = "done" /\ ~ NotJPEG /\ BadOrder
    /\ ret.nilRecord /\ ret.err = "unsupported byte order"

\* the sub-pipeline's stages, read off the input: the Software field starts
\* with "HDR+", and the stage that fails
HdrRun == pc \in {"done", "panic"} /\ HasPrefix(walked["Processing.Software"], HDRPlus)
XmpMissing == tail.xmp.found # "ok"
ExtWanted ==
    ~ XmpMissing /\ (tail.xmp.xml \/ tail.xmp.stored) /\ tail.xmp.HasExtendedXMP # ""
ExtMissing == ExtWanted /\ (tail.ext.found # "ok" \/ tail.ext.guid # tail.xmp.HasExtendedXMP)
Attribute ==
    IF tail.ext.xml THEN tail.ext.HdrPlusMakerNote
    ELSE IF tail.ext.stored THEN tail.ext.decoded ELSE <<>>
DecodedAttribute ==
    LET clean == SanitizeBase64String(Attribute)
    IN  IF DecodeString(clean, TRUE).err THEN DecodeString(clean, FALSE)
        ELSE DecodeString(clean, TRUE)
Base64Fails == ExtWanted /\ ~ ExtMissing /\ DecodedAttribute.err
TooShort == ExtWanted /\ ~ ExtMissing /\ ~ Base64Fails /\ DecodedAttribute.buf.len < 5
GunzipFails ==
    /\ ExtWanted /\ ~ ExtMissing /\ ~ Base64Fails /\ ~ TooShort
    /\ Sl(DecodedAttribute.buf, 0, 4) = HDRP
    /\ ReadGzipContent(DecryptHDRPBytes(Sl(DecodedAttribute.buf, 5,
                           DecodedAttribute.buf.len)).decrypted).err # NoErr
StageFails == XmpMissing \/ ExtMissing \/ Base64Fails \/ TooShort \/ GunzipFails

\* C2 (as claimed): when Software starts with "HDR+" and a stage of the
\* MakerNote sub-pipeline fails, the call does not crash: it returns the
\* record populated by the directory walk, with a non-nil error.
C2_SoftPipelineFailure ==
    (HdrRun /\ StageFails) =>
        /\ pc = "done"
        /\ ~ ret.nilRecord
        /\ ret.rec = walked
        /\ ret.err # NoErr

\* C3 (as claimed): a buffer too short for the byte-order marker, the
\* first-IFD offset, an entry count or a declared entry never leads to an
\* out-of-range read.
C3_NoOutOfRangeRead ==
    ~ (/\ pc = "panic"
       /\ ret.panic \in {"byte-order marker", "first-IFD offset", "entry count", "entry"})

\* gzip streams with an intact header and a missing tail: the proper
\* prefixes of the stream of Payload that hold its 10-byte header; what a
\* prefix of n bytes still holds of Payload, after the 5 bytes that open
\* the stored block
TruncatedStreams ==
    {SubSeq(GzipB(Payload), 1, n) : n \in 10..(Len(GzipB(Payload)) - 1)}
Recovered(z) == SubSeq(Payload, 1, Min(Len(Payload), Max(0, Len(z) - 15)))

\* C5 (as claimed): when the decrypted payload is a gzip stream with an
\* intact header and a missing tail, the pipeline yields a non-empty
\* partial result and the call returns a populated record with a non-nil
\* error.
C5_TruncatedWarning ==
    (pc = "done" /\ pipe.decrypted \in TruncatedStreams) =>
        /\ pipe.protoBytes # <<>>
        /\ ~ ret.nilRecord
        /\ ret.err # NoErr

\* C5 (amended): for such a payload, when at least one byte of content is
\* recovered, the pipeline yields exactly the recovered bytes and the call
\* returns the walked record with Image.MakersNote set to the Google HDR+
\* note, and a nil error; when no byte is recovered, the call returns the
\* walked record with a non-nil error.
C5_TruncatedRecovery ==
    (pc = "done" /\ pipe.decrypted \in TruncatedStreams) =>
        /\ ~ ret.nilRecord
        /\ IF Recovered(pipe.decrypted) # <<>>
           THEN /\ pipe.protoBytes = Recovered(pipe.decrypted)
                /\ ret.err = NoErr
                /\ ret.rec["Image.MakersNote"].Manufacturer = "Google HDR+"
                /\ ret.rec["Image.MakersNote"].Raw = Content(pipe.encrypted)
                /\ ret.rec["Image.MakersNote"].Parsed.protoBytes = pipe.protoBytes
                /\ ret.rec = [walked EXCEPT !["Image.MakersNote"] =
                                                ret.rec["Image.MakersNote"]]
           ELSE /\ pipe.protoBytes = <<>>
                /\ ret.err # NoErr
                /\ ret.rec = walked

\* C5 witness: a stream cut inside its content was decompressed to a
\* non-empty proper prefix of the payload and the call returned a nil error
C5_Witness ==
    /\ pc = "done" /\ pipe.decrypted \in TruncatedStreams
    /\ pipe.protoBytes # <<>> /\ Len(pipe.protoBytes) < Len(Payload)
    /\ ret.err = NoErr
    /\ ret.rec["Image.MakersNote"].Manufacturer = "Google HDR+"

\* the entries of the directory at base, and the GPS directory of the file:
\* the one the primary directory's GPSSubIFD entry points to
DirEntries(base) ==
    [j \in 1..Uint16(endian, Sl(data, base, base + 2)) |->
        ParseIFDEntry(data, base + 2 + (12 * (j - 1)), endian).v]
PrimaryBase == (offset + 10) + Uint32(endian, Sl(data, offset + 14, offset + 18))
GpsPointers == {j \in DOMAIN DirEntries(PrimaryBase) :
                   DirEntries(PrimaryBase)[j].Tag = GPSSubIFD}
GpsBase == (offset + 10)
           + DirEntries(PrimaryBase)[CHOOSE j \in GpsPointers : TRUE].ValueOffset
\* the places of tag in the GPS directory, the letter of the reference
\* entry at place k and the coordinate decoded from the entry at place i
GpsPlaces(tag) == {j \in DOMAIN DirEntries(GpsBase) : DirEntries(GpsBase)[j].Tag = tag}
GpsPlace(tag) == CHOOSE j \in GpsPlaces(tag) : TRUE
RefLetter(k) == TrimRightNul(Sl(data, GpsBase + 2 + (12 * (k - 1)) + 8,
                                GpsBase + 2 + (12 * (k - 1)) + 8
                                    + DirEntries(GpsBase)[k].Count))
Decoded(i) == getGPSCoordinate(Helper, (offset + 10) + DirEntries(GpsBase)[i].ValueOffset)
\* the call returned a record read from a file with one GPS directory
GpsRead == pc = "done" /\ ~ ret.nilRecord /\ Cardinality(GpsPointers) = 1
SignLaw(field, coord, ref, letter) ==
    (Cardinality(GpsPlaces(coord)) = 1 /\ Cardinality(GpsPlaces(ref)) = 1) =>
        ret.rec[field] = IF RefLetter(GpsPlace(ref)) = <<letter>>
                         THEN FNeg(Decoded(GpsPlace(coord)))
                         ELSE Decoded(GpsPlace(coord))

\* C8: for a GPS directory with a latitude entry and a latitude-reference
\* entry, in whichever order, the final latitude is the decoded value,
\* negated exactly when the reference is "S"; likewise the longitude and
\* "W".
C8_GPSSignLaw ==
    GpsRead => /\ SignLaw("GPS.Latitude", Latitude, LatitudeRef, 83)
               /\ SignLaw("GPS.Longitude", Longitude, LongitudeRef, 87)

\* C8 witness: the reference "S" follows the latitude entry and "W"
\* precedes the longitude entry; both coordinates came out negative
C8_Witness ==
    /\ GpsRead
    /\ Cardinality(GpsPlaces(Latitude)) = 1 /\ Cardinality(GpsPlaces(LatitudeRef)) = 1
    /\ Cardinality(GpsPlaces(Longitude)) = 1 /\ Cardinality(GpsPlaces(LongitudeRef)) = 1
    /\ GpsPlace(Latitude) < GpsPlace(LatitudeRef)
    /\ GpsPlace(LongitudeRef) < GpsPlace(Longitude)
    /\ RefLetter(GpsPlace(LatitudeRef)) = <<83>>
    /\ RefLetter(GpsPlace(LongitudeRef)) = <<87>>
    /\ ret.rec["GPS.Latitude"][1] < 0
    /\ ret.rec["GPS.Longitude"][1] < 0

\* the time a date string stands for, when it has the form
\* YYYY:MM:DD HH:MM:SS of a day of the calendar
DateOf(z) ==
    CASE z = DateZ -> [ok |-> TRUE, t |-> <<2024, 2, 29, 10, 11, 12, 0>>]
      [] z = Date2Z -> [ok |-> TRUE, t |-> <<2021, 12, 31, 23, 59, 59, 0>>]
      [] OTHER -> [ok |-> FALSE, t |-> ZeroTime]
\* the value of a date field after an entry with the string z
After(prior, z) == IF DateOf(z).ok THEN DateOf(z).t ELSE prior

\* the record the walk of DateFile(e, m1, m2, c, k) must give
DateRecord(m1, m2, c, k) ==
    [PhotoExifEvidence EXCEPT
        !["Temporal.ModifyDate"] = After(After(ZeroTime, m1), m2),
        !["Device.Make"] = <<67, 97, 110, 111, 110>>,
        !["Temporal.DateCaptured"] = After(ZeroTime, c),
        !["Temporal.CreateDate"] = After(ZeroTime, k),
        !["Camera.ISO"] = 100]

\* the input is a DateFile: its byte order and its four date strings, read
\* back from the places DateFile gives them
DateLen == Len(DateZ)
DateAt(i) == SubSeq(data.arr, 12 + i + 1, 12 + i + DateLen)
DateM1 == DateAt(8 + IFDLen(4))
DateM2 == DateAt(8 + IFDLen(4) + DateLen)
DateC == DateAt(8 + IFDLen(4) + (2 * DateLen) + Len(CanonZ) + IFDLen(3))
DateK == DateAt(8 + IFDLen(4) + (3 * DateLen) + Len(CanonZ) + IFDLen(3))
IsDateFile ==
    /\ data.len = Len(DateFile("LE", DateZ, DateZ, DateZ, DateZ))
    /\ data.arr = DateFile(IF data.arr[13] = 73 THEN "LE" ELSE "BE",
                           DateM1, DateM2, DateC, DateK)

\* C14: a DateCaptured, CreateDate or ModifyDate entry whose value does not
\* parse as YYYY:MM:DD HH:MM:SS changes no field of the record (the date
\* field keeps its prior value, zero by default), and the entries after it
\* in the same directory are still decoded.
C14_DateParseFailureSkipsField ==
    (IsDateFile /\ pc \notin {"start", "endian", "header", "walk"}) =>
        /\ pc = "done"
        /\ ret.rec = DateRecord(DateM1, DateM2, DateC, DateK)
        /\ ret.err = NoErr

\* a ModifyDate that parses followed by one that does not, and both dates
\* of the EXIF directory failing to parse: the first ModifyDate, Make and
\* ISO are in the returned record
C14_Witness ==
    /\ pc = "done" /\ IsDateFile /\ data.arr[13] = 77
    /\ DateM1 = Date2Z /\ DateM2 = DashDateZ
    /\ DateC = DashDateZ /\ DateK = NoDayDateZ
    /\ ret.rec["Temporal.ModifyDate"] = <<2021, 12, 31, 23, 59, 59, 0>>
    /\ ret.rec["Temporal.DateCaptured"] = ZeroTime
    /\ ret.rec["Temporal.CreateDate"] = ZeroTime
    /\ ret.rec["Device.Make"] = <<67, 97, 110, 111, 110>>
    /\ ret.rec["Camera.ISO"] = 100

\* the input is an AltFile: its byte order, its three altitude-reference
\* bytes and the altitude of its second GPS directory, read back from the
\* places AltFile gives them
AltOrder == IF data.arr[13] = 73 THEN "LE" ELSE "BE"
AltR1 == data.arr[12 + 8 + IFDLen(2) + 2 + 8 + 1]
AltR2 == data.arr[12 + 8 + IFDLen(2) + 2 + 24 + 8 + 1]
AltR3 == data.arr[12 + 8 + IFDLen(2) + IFDLen(3) + 8 + 2 + 8 + 1]
AltSecond ==
    Uint32(AltOrder, SubSeq(data.arr, data.len - 7, data.len - 4))
IsAltFile ==
    /\ data.len = Len(AltFile("LE", 0, 0, 0, 0))
    /\ AltSecond \in {0, 20}
    /\ data.arr = AltFile(AltOrder, AltR1, AltR2, AltR3, AltSecond)

\* C21 (as claimed): after the GPS walks the altitude of the record is the
\* altitude decoded by the last walk that held one, negated exactly when
\* an altitude-reference byte of that walk's directory is 1 or 3; a walk
\* that decodes no altitude leaves the stored one as it is.
C21_AltitudeSign ==
    (IsAltFile /\ pc = "done") =>
        ret.rec["GPS.Altitude"] =
            IF AltSecond > 0
            THEN (IF AltR3 \in {1, 3} THEN <<-AltSecond, 1>> ELSE <<AltSecond, 1>>)
            ELSE (IF AltR1 \in {1, 3} \/ AltR2 \in {1, 3} THEN <<-35, 1>> ELSE <<35, 1>>)

\* the tags that have a case in the switch of each walker
PrimaryTable ==
    {ProcessingSoftware, ImageWidth, ImageHeight, ImageDescription, Make, Model,
     Orientation, Software, ModifyDate, Artist, Copyright, EXIFSubIFD, GPSSubIFD,
     XPTitle, XPComment, XPAuthor, XPKeywords, XPSubject}
ExifTable ==
    {33434, FNumber, 34850, ISO, ExifVersion, DateCaptured, CreateDate, OffsetTime,
     OffsetTimeOriginal, OffsetTimeDigitized, 37121, 37383, 37384, 37385,
     FocalLength, MakerNote, UserComment, SubSecTime, SubSecTimeOriginal,
     SubSecTimeDigitized, FlashpixVersion, 40961, PixelXDimension,
     PixelYDimension, RelatedSoundFile, 41728, SceneType, WhiteBalance,
     DigitalZoomRatio, 41990, 41992, 41993, 41994, 41996, ImageUniqueID,
     BodySerialNumber, LensInfo, LensMake, LensModel, LensSerialNumber,
     ImageEditor, CameraFirmware, 42080, 42081, SerialNumber}
GPSTable == (0 .. 7) \cup {12, 13} \cup (16 .. 27) \cup {29, 30}
TagTable(kind) ==
    CASE kind = "primary" -> PrimaryTable
      [] kind = "exif" -> ExifTable
      [] kind = "gps" -> GPSTable

\* the entry the walker is at, and its tag when the buffer holds it
CurOffset == ifd.base + 2 + (ifd.j * 12)
CurHeld == InSlice(data, CurOffset, CurOffset + 12)
CurTag == Uint16(endian, Sl(data, CurOffset, CurOffset + 2))
CurForeign == CurHeld /\ CurTag \notin TagTable(ifd.kind)

C22_Step ==
    pc = "walk" =>
        LET next == [ifd EXCEPT !.j = @ + 1]
        IN  /\ ifd.j <= ifd.count
            /\ (ifd.j < ifd.count /\ pc' = "walk") =>
                   \/ ifd' = next /\ stack' = stack
                   \/ /\ ifd.kind = "primary"
                      /\ CurTag \in {EXIFSubIFD, GPSSubIFD}
                      /\ stack' = <<next>>
                      /\ ifd'.j = 0
            /\ (ifd.j < ifd.count) => pc' \in {"walk", "panic"}
            /\ (ifd.j = ifd.count /\ pc' = "walk") =>
                   ifd.kind # "primary" /\ ifd' = stack[1] /\ stack' = <<>>
            /\ (ifd.j < ifd.count /\ CurForeign) =>
                   /\ pc' = "walk"
                   /\ metadata' = metadata
                   /\ gps' = gps
                   /\ ifd' = next
                   /\ stack' = stack

\* C22: a walk over a directory of declared count c takes its entries at
\* base + 2 + 12 * i for i = 0, 1, .., c - 1 in this order (a pointer entry
\* of the primary directory opens its directory at entry 0 and the primary
\* walk resumes at the next entry after it), ends only after entry c - 1,
\* and an entry held by the buffer whose tag has no case in the walker's
\* switch changes no field of the record and no local of the walker, and
\* the walk goes on with the next entry.
C22_WalkOrder == [][C22_Step]_vars

\* the input is an UnkFile
UnkOrder == IF data.arr[13] = 73 THEN "LE" ELSE "BE"
UnkTagAt(k) == Uint16(UnkOrder, SubSeq(data.arr, k + 1, k + 2))
IsUnkFile ==
    /\ data.len = Len(UnkFile("LE", 0, 0, 0))
    /\ data.arr = UnkFile(UnkOrder, UnkTagAt(12 + 8 + 2),
                          UnkTagAt(12 + 8 + IFDLen(5) + 2),
                          UnkTagAt(12 + 8 + IFDLen(5) + IFDLen(2) + 2))
    /\ UnkTagAt(12 + 8 + 2) \notin PrimaryTable
    /\ UnkTagAt(12 + 8 + IFDLen(5) + 2) \notin ExifTable
    /\ UnkTagAt(12 + 8 + IFDLen(5) + IFDLen(2) + 2) \notin GPSTable

\* a file whose three directories start with a foreign entry was walked to
\* the end: the entries after the foreign ones were decoded and nothing else
C22_Witness ==
    /\ IsUnkFile /\ pc = "done"
    /\ ret.rec = [PhotoExifEvidence EXCEPT !["Device.Make"] = <<97, 98>>,
                                           !["Device.Model"] = <<99, 100>>,
                                           !["Camera.ISO"] = 100,
                                           !["GPS.Altitude"] = <<-35, 1>>]

\* the place the value of the entry of an accessor call is read from when
\* inline storage is chosen for count * width <= 4
ChosenOffset(width) ==
    IF accEntry.Count * width <= 4 THEN accOff + 8
    ELSE accE.TiffStart + accEntry.ValueOffset
\* the buffer holds n bytes at off
HeldAt(off, n) == off >= 0 /\ off + n <= accE.Data.len
\* the 16-bit little-endian units of the n bytes at off, decoded and trimmed
UTF16At(off, n) ==
    TrimSpace(TrimRightNul(utf16Decode(
        [i \in 1..(n \div 2) |->
            Uint16("LE", Sl(accE.Data, off + (i - 1) * 2, off + (i - 1) * 2 + 2))])))

\* C23 (as claimed): GetString and GetByteArray read count bytes, and
\* GetUTF16LEString count bytes as 16-bit units, at entryOffset + 8 exactly
\* when count <= 4 and at tiffStart + valueOffset otherwise;
\* GetCompositeImageCount reads its two 16-bit numbers at entryOffset + 8
\* exactly when count * 2 <= 4.  Stated for calls whose buffer holds the
\* value at both places.
C23_InlineRule ==
    LET n == accEntry.Count
        held(w) == /\ HeldAt(accOff + 8, n * w)
                   /\ HeldAt(accE.TiffStart + accEntry.ValueOffset, n * w)
    IN  /\ (accOp = "GetString" /\ held(1)) =>
               accRes = Ok(TrimRightNul(Sl(accE.Data, ChosenOffset(1), ChosenOffset(1) + n)))
        /\ (accOp = "GetByteArray" /\ held(1)) =>
               accRes = Ok(Sl(accE.Data, ChosenOffset(1), ChosenOffset(1) + n))
        /\ (accOp = "GetCompositeImageCount" /\ n >= 2 /\ held(2)) =>
               accRes = Ok(<<Uint16(accE.Endian,
                                    Sl(accE.Data, ChosenOffset(2), ChosenOffset(2) + 2)),
                             Uint16(accE.Endian,
                                    Sl(accE.Data, ChosenOffset(2) + 2, ChosenOffset(2) + 4))>>)
        /\ (accOp = "GetUTF16LEString" /\ held(1)) =>
               accRes = Ok(UTF16At(ChosenOffset(1), n))

\* the positions of the MakerNote pipeline, and the primary walk at its end
PipeStages == {"xmp", "extxmp", "base64", "magic", "decrypt", "gunzip", "unmarshal"}
WalkOver == ifd.kind = "primary" /\ ifd.j = ifd.count /\ stack = <<>>

\* C26: the call is in the MakerNote pipeline only when the primary walk and
\* the walks it nests are over and the Software field of the record starts
\* with "HDR+"; until then no local of the pipeline is set; and a call that
\* returns a record whose Software does not start with "HDR+" returns the
\* walked record with a nil error and has set no local of the pipeline.
C26_PipelineGate ==
    /\ pc \in PipeStages =>
           /\ WalkOver
           /\ metadata = walked
           /\ HasPrefix(walked["Processing.Software"], HDRPlus)
    /\ pc \in {"start", "endian", "header", "walk"} => pipe = PipeLocals
    /\ (pc = "done" /\ ~ ret.nilRecord) => WalkOver
    /\ (pc = "done" /\ ~ ret.nilRecord
            /\ ~ HasPrefix(walked["Processing.Software"], HDRPlus)) =>
           /\ ret = Return(walked, NoErr)
           /\ metadata = walked
           /\ pipe = PipeLocals

\* C26 witness: a file whose Software is "xHDR+", followed by two whole XMP
\* packets, was walked and returned with a nil error, the pipeline not
\* entered
C26_Witness ==
    /\ pc = "done" /\ tail = GoodTail
    /\ walked["Processing.Software"] = <<120>> \o HDRPlus
    /\ ret = Return(walked, NoErr)
    /\ pipe = PipeLocals

\* the walker of the EXIF directory is at a MakerNote entry; the entry, and
\* what DetectAndParse returns for it
AtMakerNote ==
    /\ pc = "walk" /\ ifd.kind = "exif" /\ ifd.j < ifd.count
    /\ CurHeld /\ CurTag = MakerNote
CurNote == DetectAndParse(Helper, ParseIFDEntry(data, CurOffset, endian).v)

C27_Step ==
    /\ metadata'["Authenticity.MakerNote"] # metadata["Authenticity.MakerNote"] =>
           AtMakerNote /\ ~ CurNote.panic /\ CurNote.v.err = NoErr
    /\ (AtMakerNote /\ ~ CurNote.panic /\ CurNote.v.err = NoErr) =>
           /\ ~ CurNote.v.nilMap
           /\ CurNote.v.manufacturer = Manufacturer(Parsers[CurNote.v.tried])
           /\ metadata'["Authenticity.MakerNote"].Manufacturer = CurNote.v.manufacturer
           /\ metadata'["Authenticity.MakerNote"].Parsed = CurNote.v.parsed
    /\ (AtMakerNote /\ ~ CurNote.panic /\ CurNote.v.err # NoErr) =>
           /\ metadata' = metadata
           /\ pc' = "walk"
           /\ ifd' = [ifd EXCEPT !.j = @ + 1]

TypedOrder == IF data.arr[13] = 73 THEN "LE" ELSE "BE"
TypeAt(k) == Uint16(TypedOrder, SubSeq(data.arr, k + 3, k + 4))
TypedP == TypeAt(12 + 8 + 2)
TypedX == TypeAt(12 + 8 + IFDLen(3) + 2)
TypedG == TypeAt(12 + 8 + IFDLen(3) + IFDLen(2) + 2)
TypedM == TypeAt(12 + 8 + IFDLen(3) + IFDLen(2) + IFDLen(2) + 8 + 16)
IsTypedFile ==
    /\ data.len = Len(TypedFile("LE", 2, 2, 2, 2))
    /\ data.arr = TypedFile(TypedOrder, TypedP, TypedX, TypedG, TypedM)

\* the record of the TypedFile of byte order e whose entries all have type
\* 2, with the bytes of the MakerNote of type t as Raw
TypedRecord(e, t) ==
    [PhotoExifEvidence EXCEPT
        !["Device.Make"] = <<97, 98>>,
        !["Camera.ISO"] = 100,
        !["GPS.Altitude"] = <<-35, 1>>,
        !["Authenticity.MakerNote"] =
            [Raw |-> TypedNote(e, t), Manufacturer |-> "Apple",
             Parsed |-> AppleParseRaw(Bytes(TypedNote(e, 2))).v.parsed]]

\* C28 (as claimed): files that differ only in the types of the entries of
\* their primary, EXIF, GPS and Apple MakerNote directories yield the same
\* record and the same error: those of the file whose types are all 2.
C28_TypeBlind ==
    (IsTypedFile /\ pc = "done") => ret = Return(TypedRecord(TypedOrder, 2), NoErr)

\* C28 (amended): such files yield the same error and records that agree in
\* every field but Authenticity.MakerNote.Raw, which holds the bytes of the
\* MakerNote as they are in the file, the types of its entries among them.
C28_TypeBlindButRaw ==
    (IsTypedFile /\ pc = "done") => ret = Return(TypedRecord(TypedOrder, TypedM), NoErr)

\* C28 witness: a file whose four directories have four different types
\* was walked to the end
C28_Witness ==
    /\ IsTypedFile /\ pc = "done"
    /\ TypedP = 7 /\ TypedX = 65535 /\ TypedG = 2 /\ TypedM = 7
    /\ ret.rec["Authenticity.MakerNote"].Manufacturer = "Apple"
    /\ ret.rec["Device.Make"] = <<97, 98>>

\* C29: every call ends (it returns, or it stops in a run-time panic), files
\* whose directory pointers point back to the primary directory or to the
\* directory that holds them included; a sub-directory walk is nested in
\* the primary walk and nothing is nested in it, and a walk is at entry
\* j <= count of a directory whose count is below 2^16.
C29_Terminates ==
    /\ [](/\ Len(stack) <= 1
          /\ stack # <<>> => (ifd.kind \in {"exif", "gps"} /\ stack[1].kind = "primary")
          /\ ifd.j <= ifd.count /\ ifd.count < 65536)
    /\ <>(pc \in {"done", "panic"})

\* C29 witness: a file whose EXIF directory holds an EXIF pointer to itself
\* and a GPS pointer to the primary directory was walked to the end, the
\* ISO entry behind the two pointers decoded
C29_Witness ==
    /\ pc = "done" /\ data.arr = SelfFile("LE", EXIFSubIFD)
    /\ ret = Return([PhotoExifEvidence EXCEPT !["Camera.ISO"] = 100], NoErr)

\* C30: the call works on the first pair FF E1 of the buffer, wherever it
\* is: after the search the offset is that of the first pair; when the two
\* bytes 10 and 11 after it are not II or MM the call returns the
\* unsupported-byte-order error and no record, whatever follows, a later
\* APP1 segment with a valid EXIF block included; and a file whose first
\* pair starts a valid block yields the record of that block whatever the
\* six bytes before the byte-order marker are and whatever segment follows.
C30_FirstMarkerOnly ==
    /\ (pc # "start" /\ ~ NotJPEG /\ Markers # {}) => offset = FirstMarker
    /\ (pc = "done" /\ ~ NotJPEG /\ BadOrder) => ret = ReturnNil("unsupported byte order")
    /\ \A c \in FirstCases :
           (pc = "done" /\ data.arr = c.file) =>
               ret = IF c.pre = <<>>
                     THEN Return([PhotoExifEvidence EXCEPT !["Device.Make"] = <<97, 98>>],
                                 NoErr)
                     ELSE ReturnNil("unsupported byte order")

\* C30 witness: a file whose first APP1 segment has the byte-order marker
\* "XX" and whose second APP1 segment holds a valid EXIF block was rejected
\* with the unsupported-byte-order error at the first marker
C30_Witness ==
    /\ pc = "done" /\ data.arr = FirstFile(XXSegment, ExifZ, "LE", <<>>)
    /\ offset = 2 /\ Cardinality(Markers) = 2
    /\ ret = ReturnNil("unsupported byte order")

-----------------------------------------------------------------------------
(* Calls of the helper functions: Init draws the function and its          *)
(* arguments, the action of the function applies it.                       *)

\* exposure times num/den: the small pairs, and 1/500, 3/1000, 500/1, 2/1
MaxExposure == 12
ExposureArgs ==
    {[f |-> "FormatExposureTime", num |-> n, den |-> d] :
        n \in 0..MaxExposure, d \in 0..MaxExposure}
    \cup {[f |-> "FormatExposureTime", num |-> p[1], den |-> p[2]] :
            p \in {<<1, 500>>, <<3, 1000>>, <<500, 1>>, <<2, 1>>, <<0, 500>>}}

\* metadata.Camera.ExposureTime = helpers.FormatExposureTime(num, den)
CallFormatExposureTime ==
    /\ fnArg.f = "FormatExposureTime" /\ fnOut = <<>>
    /\ \E inf \in IntOfInf :
          fnOut' = <<FormatExposureTime(fnArg.num, fnArg.den, inf)>>
    /\ UNCHANGED <<fnArg, accVars, b64Vars, mnVars, exVars>>

\* rationals n/d written as two words at TiffStart + ValueOffset + nested
\* offset, in a buffer whose length stops `cut` bytes before their end
RationalWords == {0, 1, 3, 500, 65536, 16777217, 2147483647}
MaxCut == 9
RationalArgs ==
    {[f |-> "GetRational", n |-> n, d |-> d, Endian |-> e, TiffStart |-> t,
      ValueOffset |-> v, nestedOffset |-> o, cut |-> c] :
        n \in RationalWords, d \in RationalWords, e \in {"LE", "BE"},
        t \in {0, 2}, v \in {0, 3}, o \in {0, 8}, c \in 0..MaxCut}

\* the ValueExtractor of a "GetRational" call: the two words at their offset
RationalData(a) ==
    LET bs == [k \in 1..(a.TiffStart + a.ValueOffset + a.nestedOffset) |-> 255]
              \o U32B(a.Endian, a.n) \o U32B(a.Endian, a.d)
    IN  [Data |-> BytesCap(bs, IF a.cut > Len(bs) THEN 0 ELSE Len(bs) - a.cut),
         TiffStart |-> a.TiffStart, Endian |-> a.Endian]

\* helper.GetRational(entry, nestedOffset)
CallGetRationalWords ==
    /\ fnArg.f = "GetRational" /\ fnOut = <<>>
    /\ fnOut' = <<GetRational(RationalData(fnArg),
                              [Tag |-> 0, DataType |-> 5, Count |-> 1,
                               ValueOffset |-> fnArg.ValueOffset],
                              fnArg.nestedOffset, FALSE)>>
    /\ UNCHANGED <<fnArg, accVars, b64Vars, mnVars, exVars>>

\* the enumeration decoders and the codes given to them: 0..MaxCode and
\* the codes at the top of the 8- and 16-bit ranges
Decoders ==
    {"Orientation", "ExposureProgram", "MeteringMode", "LightSource",
     "ColorSpace", "Flash", "FileSource", "SceneCaptureType", "Contrast",
     "Saturation", "Sharpness", "SubjectDistanceRange", "CompositeImage"}
MaxCode == 96
Codes(dec) ==
    (0..MaxCode) \cup {254, 255}
        \cup (IF dec = "FileSource" THEN {} ELSE {256, 65533, 65534, 65535})
DecoderArgs ==
    UNION {{[f |-> "DecodeEnum", dec |-> d, code |-> c] : c \in Codes(d)} :
                d \in Decoders}

\* the decoder applied to the value of each enumerated tag
DecodeEnum(dec, code) ==
    CASE dec = "Orientation" -> ParseOrientationValue(code)
      [] dec = "ExposureProgram" -> ParseExposureProgram(code)
      [] dec = "MeteringMode" -> ParseMeteringMode(code)
      [] dec = "LightSource" -> ParseLightSource(code)
      [] dec = "ColorSpace" -> ParseColourSpace(code)
      [] dec = "Flash" -> ParseFlashValue(code)
      [] dec = "FileSource" -> ParseFileSource(code)
      [] dec = "SceneCaptureType" -> ParseSceneType(code)
      [] dec \in {"Contrast", "Saturation", "Sharpness"} -> ParseProcessing(code)
      [] dec = "SubjectDistanceRange" -> ParseSubjectDistanceRange(code)
      [] dec = "CompositeImage" -> ParseCompositeImage(code)

\* metadata.<field> = helpers.Parse...(helper.GetUint16(entryOffset))
CallDecodeEnum ==
    /\ fnArg.f = "DecodeEnum" /\ fnOut = <<>>
    /\ fnOut' = <<DecodeEnum(fnArg.dec, fnArg.code)>>
    /\ UNCHANGED <<fnArg, accVars, b64Vars, mnVars, exVars>>

\* what ReadGzipContent may be given: Streams; a gzip stream and a bare
\* DEFLATE stream whose second block has the reserved type (byte 7) after a
\* first block of one byte; the proper prefixes of a bare DEFLATE stream;
\* a gzip stream and a bare DEFLATE stream of no bytes at all
GzipArgs ==
    {[f |-> "ReadGzipContent", z |-> z] :
        z \in Streams
            \cup {Flatten(<<GzipHeaderB, StoredBlock(0, <<Payload[1]>>), <<7>>>>),
                  StoredBlock(0, <<Payload[1]>>) \o <<7>>,
                  GzipB(<<>>), StoredBlock(1, <<>>)}
            \cup {SubSeq(StoredBlock(1, Payload), 1, n) :
                        n \in 0..Len(StoredBlock(1, Payload))}}

\* protoBytes, err := ReadGzipContent(decrypted)
CallReadGzipContent ==
    /\ fnArg.f = "ReadGzipContent" /\ fnOut = <<>>
    /\ fnOut' = <<ReadGzipContent(fnArg.z)>>
    /\ UNCHANGED <<fnArg, accVars, b64Vars, mnVars, exVars>>

\* the halves of the words given to multiply64
MulHalves == {0, 1, 255, 32768, 43690, 65535}
MulArgs ==
    {[f |-> "multiply64", hi |-> W32(a, b), lo |-> W32(c, d)] :
        a \in MulHalves, b \in MulHalves, c \in MulHalves, d \in MulHalves}

\* hi, lo = multiply64(hi, lo)
CallMultiply64 ==
    /\ fnArg.f = "multiply64" /\ fnOut = <<>>
    /\ fnOut' = <<multiply64(fnArg.hi, fnArg.lo)>>
    /\ UNCHANGED <<fnArg, accVars, b64Vars, mnVars, exVars>>

\* the byte strings given to DecryptHDRPBytes: every length up to two
\* blocks and a part of a third, of zeros, of 0xff and of mixed bytes
MaxCipherLen == 17
CipherArgs ==
    {[f |-> "DecryptHDRPBytes", x |-> [k \in 1..n |-> (a * k + b) % 256]] :
        n \in 0..MaxCipherLen, a \in {0, 37}, b \in {0, 255}}

\* decrypted, err := makernotes.DecryptHDRPBytes(encrypted[5:])
CallDecryptHDRPBytes ==
    /\ fnArg.f = "DecryptHDRPBytes" /\ fnOut = <<>>
    /\ fnOut' = <<DecryptHDRPBytes(fnArg.x)>>
    /\ UNCHANGED <<fnArg, accVars, b64Vars, mnVars, exVars>>

\* DecryptHDRPBytes applied to its own result
CallDecryptAgain ==
    /\ fnArg.f = "DecryptHDRPBytes" /\ Len(fnOut) = 1
    /\ fnOut' = fnOut \o <<DecryptHDRPBytes(fnOut[1].decrypted)>>
    /\ UNCHANGED <<fnArg, accVars, b64Vars, mnVars, exVars>>

\* buffers with and without the XMP marker and the closing tag, and
\* payloads that start with bytes of the marker: "<x:a/>", "x:a", "http<b>",
\* "0.1", "" and "<"; 255 225 stand for what precedes the packet
XmpPayloads ==
    {<<60, 120, 58, 97, 47, 62>>, <<120, 58, 97>>, <<104, 116, 116, 112, 60, 98, 62>>, <<48, 46, 49>>, <<>>, <<60>>}
XmpArgs ==
    {[f |-> "ExtractXMPData", data |-> Flatten(<<pre, mark, body, close, post>>)] :
        pre \in {<<>>, <<255, 225>>},
        mark \in {xmpHeader, SubSeq(xmpHeader, 1, Len(xmpHeader) - 1), <<>>},
        body \in XmpPayloads,
        close \in {xmpEnd, SubSeq(xmpEnd, 1, Len(xmpEnd) - 1)},
        post \in {<<>>, <<10>> \o xmpEnd}}

\* output, err := ExtractXMPData(data)
CallExtractXMPData ==
    /\ fnArg.f = "ExtractXMPData" /\ fnOut = <<>>
    /\ fnOut' = <<ExtractXMPData(fnArg.data)>>
    /\ UNCHANGED <<fnArg, accVars, b64Vars, mnVars, exVars>>

\* documents: the values "QUJD", "A&amp;B", "A&B;" and "", in double or in
\* single quotes, with and without the decoy, closed and not
XmlValues == {<<81, 85, 74, 68>>, <<65, 38, 97, 109, 112, 59, 66>>, <<65, 38, 66, 59>>, <<>>}
XmlArgs ==
    {[f |-> "DecodeXMPMeta",
      doc |-> [decoy |-> c, quote |-> q, v |-> v, ext |-> x, closed |-> z]] :
        c \in BOOLEAN, q \in {34, 39}, v \in XmlValues, x \in {<<>>, <<71>>},
        z \in BOOLEAN}

\* xmp := helper.DecodeXMPMeta([]byte(output))
CallDecodeXMPMeta ==
    /\ fnArg.f = "DecodeXMPMeta" /\ fnOut = <<>>
    /\ fnOut' = <<DecodeXMPMeta(xmlUnmarshal(fnArg.doc),
                                extractRawXMLAttribute(XmpDoc(fnArg.doc), AttrName))>>
    /\ UNCHANGED <<fnArg, accVars, b64Vars, mnVars, exVars>>

FnArgs ==
    ExposureArgs \cup RationalArgs \cup DecoderArgs \cup GzipArgs \cup MulArgs
        \cup CipherArgs \cup XmpArgs \cup XmlArgs

InitFn ==
    /\ fnArg \in FnArgs
    /\ fnOut = <<>>
    /\ AccIdle /\ B64Idle /\ MnIdle /\ ExIdle

NextFn ==
    \/ CallFormatExposureTime
    \/ CallGetRationalWords
    \/ CallDecodeEnum
    \/ CallReadGzipContent
    \/ CallMultiply64
    \/ CallDecryptHDRPBytes
    \/ CallDecryptAgain
    \/ CallExtractXMPData
    \/ CallDecodeXMPMeta

SpecFn == InitFn /\ [][NextFn]_vars

\* C11 (as claimed): for den # 0 the result is "Ns" with N = num/den when
\* den divides num, the one-decimal form when num >= den otherwise, and
\* "1/R" with R = floor(den/num + 1/2) when num < den.
C11_ExposureFormat ==
    (fnArg.f = "FormatExposureTime" /\ fnArg.den # 0 /\ fnOut # <<>>) =>
        IF fnArg.num >= fnArg.den
        THEN IF fnArg.num % fnArg.den = 0
             THEN fnOut[1] = Itoa(fnArg.num \div fnArg.den) \o <<115>>
             ELSE /\ Len(fnOut[1]) >= 4
                  /\ fnOut[1][Len(fnOut[1])] = 115
                  /\ fnOut[1][Len(fnOut[1]) - 2] = 46
        ELSE /\ fnArg.num # 0
             /\ fnOut[1] = <<49, 47>>
                    \o Itoa(((2 * fnArg.den) + fnArg.num) \div (2 * fnArg.num))

\* C12: GetRational (unsigned) of n and d written as two consecutive words
\* in the context's byte order returns n/d when the 8 bytes lie inside the
\* buffer and d # 0, and 0 when d = 0 or the 8 bytes are not all inside.
C12_RationalRoundTrip ==
    (fnArg.f = "GetRational" /\ fnOut # <<>>) =>
        fnOut[1] = IF fnArg.cut = 0 /\ fnArg.d # 0
                   THEN Frac(fnArg.n, fnArg.d) ELSE FZero

\* a rational with a large numerator read back from a shifted offset
C12_Witness ==
    /\ fnArg.f = "GetRational" /\ fnOut # <<>>
    /\ fnArg.cut = 0 /\ fnArg.n = 16777217 /\ fnArg.d = 500
    /\ fnArg.TiffStart + fnArg.ValueOffset + fnArg.nestedOffset = 13
    /\ fnOut[1] = <<16777217, 500>>

\* the codes of each decoder's table
Table(dec) ==
    CASE dec = "Orientation" -> 1..8
      [] dec = "ExposureProgram" -> 0..9
      [] dec = "MeteringMode" -> (0..6) \cup {255}
      [] dec = "LightSource" -> (0..4) \cup (9..24) \cup {255}
      [] dec = "ColorSpace" -> {1, 2, 65533, 65534, 65535}
      [] dec = "Flash" -> {0, 1, 5, 7, 8, 9, 13, 15, 16, 20, 24, 25, 29, 31,
                           32, 48, 65, 69, 71, 73, 77, 79, 80, 88, 89, 93, 95}
      [] dec = "FileSource" -> 1..3
      [] dec = "SceneCaptureType" -> 0..4
      [] dec \in {"Contrast", "Saturation", "Sharpness"} -> 0..2
      [] dec \in {"SubjectDistanceRange", "CompositeImage"} -> 0..3

\* the label each decoder gives to a code outside its table
Fallback(dec) ==
    CASE dec \in {"Orientation", "ExposureProgram", "Flash", "FileSource",
                  "SceneCaptureType"} -> "Unknown"
      [] dec \in {"MeteringMode", "LightSource"} -> "Not Defined"
      [] dec = "ColorSpace" -> "None"
      [] dec \in {"Contrast", "Saturation", "Sharpness"} -> "Unknown or not set"
      [] dec \in {"SubjectDistanceRange", "CompositeImage"} -> "Not defined"

\* C13 (as claimed): every code outside a decoder's table maps to the label
\* "Unknown" or "Not Defined".
C13_FallbackLabel ==
    (fnArg.f = "DecodeEnum" /\ fnOut # <<>> /\ fnArg.code \notin Table(fnArg.dec)) =>
        fnOut[1] \in {"Unknown", "Not Defined"}

\* C13 (amended): every decoder gives a label to every code, and a code
\* outside its table gets the decoder's own fallback label: "Unknown",
\* "Not Defined", "None" (ColorSpace), "Unknown or not set" (Contrast,
\* Saturation, Sharpness) or "Not defined" (SubjectDistanceRange,
\* CompositeImage); no code of the table gets that label.
C13_OwnFallbackLabel ==
    (fnArg.f = "DecodeEnum" /\ fnOut # <<>>) =>
        /\ fnOut[1] \in STRING
        /\ fnArg.code \notin Table(fnArg.dec) => fnOut[1] = Fallback(fnArg.dec)
        /\ fnArg.code \in Table(fnArg.dec) => fnOut[1] # Fallback(fnArg.dec)

\* a sharpness code outside the table decoded to its fallback label
C13_Witness ==
    /\ fnArg.f = "DecodeEnum" /\ fnOut # <<>>
    /\ fnArg.dec = "Sharpness" /\ fnArg.code = 3
    /\ fnOut[1] = "Unknown or not set"

\* gzip.NewReader rejects the header of z
HeaderRejected(z) == readHeader(z, 1) # NoErr
\* the header is accepted and the decoding of what follows it fails
MidStreamFailure(z) == ~ HeaderRejected(z) /\ GzipReadAll(z, 1).err # NoErr

Decompressed(z) ==
    IF HeaderRejected(z) THEN Inflate(z, 1).out ELSE GzipReadAll(z, 1).out
DecompressFailed(z) ==
    IF HeaderRejected(z) THEN Inflate(z, 1).err # "EOF"
    ELSE GzipReadAll(z, 1).err # NoErr

\* C16 (as claimed): in both paths the bytes decompressed before a failure
\* are the result, and the call reports failure only when no byte was
\* recovered and an error occurred.
C16_PartialOutputKept ==
    (fnArg.f = "ReadGzipContent" /\ fnOut # <<>>) =>
        IF Decompressed(fnArg.z) = <<>> /\ DecompressFailed(fnArg.z)
        THEN fnOut[1].err # NoErr
        ELSE /\ fnOut[1].err = NoErr
             /\ fnOut[1].bytes = Decompressed(fnArg.z)

\* Arithmetic modulo 2^64 on 64-bit vectors (most significant bit first),
\* by the binary method: the sum bit by bit with its carries, the product
\* by doubling and adding over the bits of the multiplier.
\* a carry enters bit k when a bit below it has two ones and every bit
\* between them has exactly one
CarryInto(x, y, k) ==
    \E j \in (k + 1)..64 :
        /\ x[j] + y[j] = 2
        /\ \A i \in (k + 1)..(j - 1) : x[i] + y[i] = 1
Add64(x, y) ==
    With2(x, y, LAMBDA a, b :
        Tuple([k \in 1..64 |->
                (a[k] + b[k] + IF CarryInto(a, b, k) THEN 1 ELSE 0) % 2]))
Double64(x) == Tail(x) \o <<0>>
Zero64 == Tuple([k \in 1..64 |-> 0])
\* acc doubled and added to over the bits i..n of m; the product is taken
\* one byte of m at a time
RECURSIVE Mul64Bits(_, _, _, _, _)
Mul64Bits(x, m, i, n, acc) ==
    IF i > n THEN acc
    ELSE With(IF m[i] = 1 THEN Add64(Double64(acc), x) ELSE Double64(acc),
              LAMBDA r : Mul64Bits(x, m, i + 1, n, r))
RECURSIVE Mul64From(_, _, _, _)
Mul64From(x, m, b, acc) ==
    IF b > 8 THEN acc
    ELSE With(Mul64Bits(x, m, (8 * b) - 7, 8 * b, acc),
              LAMBDA r : Mul64From(x, m, b + 1, r))
Mul64(x, m) == Mul64From(x, m, 1, Zero64)

\* 0x2545f4914f6cdd1d
Multiplier64 == W32(9541, 62609) \o W32(20332, 56605)

\* C17: multiply64(hi, lo) is, as (high 32 bits, low 32 bits), the low 64
\* bits of (hi * 2^32 + lo) * 0x2545f4914f6cdd1d: no carry of the limb
\* product is lost or counted twice.
C17_MultiplyMod64 ==
    (fnArg.f = "multiply64" /\ fnOut # <<>>) =>
        fnOut[1][1] \o fnOut[1][2] = Mul64(fnArg.hi \o fnArg.lo, Multiplier64)

\* 0xffffffffffffffff * m = -m modulo 2^64 = 0xdaba0b6eb09322e3: every
\* column of the limb product overflows 32 bits
C17_Witness ==
    /\ fnArg.f = "multiply64" /\ fnOut # <<>>
    /\ fnArg.hi = W32(65535, 65535) /\ fnArg.lo = W32(65535, 65535)
    /\ fnOut[1] = <<W32(55994, 2926), W32(45203, 8931)>>

\* the 64-bit reference of the key stream: the seed 0x2515606b4a7791cd and
\*   k ^= k >> 12 ; k ^= k << 25 ; k ^= k >> 27 ; k = k * 0x2545f4914f6cdd1d
Seed64 == W32(9493, 24683) \o W32(19063, 37325)
RefNext(k) ==
    With(With(With(With(k, LAMBDA a : Xor(a, Shr(a, 12))),
                   LAMBDA b : Xor(b, Shl(b, 25))),
              LAMBDA c : Xor(c, Shr(c, 27))),
         LAMBDA d : Mul64(d, Multiplier64))
RECURSIVE RefKey(_)
RefKey(i) == IF i = 0 THEN Seed64 ELSE RefNext(RefKey(i - 1))
\* block i of x padded with zeros, its first word XORed with the low half
\* of the key and its second word with the high half
RefBlock(x, i) ==
    With2(x \o <<0, 0, 0, 0, 0, 0, 0>>, RefKey(i), LAMBDA p, k :
        BytesLE(Xor(WordLE(SubSeq(p, (8 * i) - 7, (8 * i) - 4)), SubSeq(k, 33, 64)))
            \o BytesLE(Xor(WordLE(SubSeq(p, (8 * i) - 3, 8 * i)), SubSeq(k, 1, 32))))
RefDecrypt(x) ==
    SubSeq(Flatten([i \in 1..((Len(x) + 7) \div 8) |-> RefBlock(x, i)]), 1, Len(x))

\* C18: for each 8-byte block in order the key that DecryptHDRPBytes keeps
\* in two 32-bit halves is the key of the 64-bit reference, and the block's
\* first little-endian word is XORed with the low half of the key and its
\* second word with the high half.
C18_KeyStreamRefinement ==
    (fnArg.f = "DecryptHDRPBytes" /\ fnOut # <<>>) =>
        fnOut[1].decrypted = RefDecrypt(fnArg.x)

\* sixteen bytes of zeros: the result is the key stream of two blocks,
\* the keys 0x2c1e705e6d3deff0 and 0x1df31b3deaa01ce8, low half first
C18_Witness ==
    /\ fnArg.f = "DecryptHDRPBytes" /\ fnOut # <<>>
    /\ fnArg.x = [k \in 1..16 |-> 0]
    /\ fnOut[1].decrypted = <<240, 239, 61, 109, 94, 112, 30, 44,
                              232, 28, 160, 234, 61, 27, 243, 29>>

\* C19: DecryptHDRPBytes is its own inverse and keeps the length, for every
\* length (zero and the lengths that are not a multiple of 8 included), and
\* does not modify its input.
C19_SelfInverse ==
    (fnArg.f = "DecryptHDRPBytes" /\ fnOut # <<>>) =>
        /\ fnOut[1].err = NoErr
        /\ Len(fnOut[1].decrypted) = Len(fnArg.x)
        /\ fnOut[1].data = fnArg.x
        /\ Len(fnOut) = 2 => /\ fnOut[2].err = NoErr
                             /\ fnOut[2].decrypted = fnArg.x

\* thirteen bytes (one block and a part of a second) changed by the first
\* call and given back by the second
C19_Witness ==
    /\ fnArg.f = "DecryptHDRPBytes" /\ Len(fnOut) = 2
    /\ fnArg.x = [k \in 1..13 |-> (37 * k) % 256]
    /\ \A k \in 1..13 : fnOut[1].decrypted[k] # fnArg.x[k]
    /\ fnOut[2].decrypted = fnArg.x

\* the first place of pat in d at or after from, -1 when there is none
FirstAt(d, pat, from) ==
    LET S == {i \in from..(Len(d) - Len(pat)) : MatchAt(d, i, pat)}
    IN  IF S = {} THEN -1 ELSE Least(S)
\* the payload of d: the bytes after the first marker up to and including
\* the first closing tag after it
XmpPayload(d) ==
    LET m == FirstAt(d, xmpHeader, 0)
        c == FirstAt(d, xmpEnd, m + Len(xmpHeader))
    IN  SubSeq(d, m + Len(xmpHeader) + 1, c + Len(xmpEnd))
XmpComplete(d) ==
    /\ FirstAt(d, xmpHeader, 0) >= 0
    /\ FirstAt(d, xmpEnd, FirstAt(d, xmpHeader, 0) + Len(xmpHeader)) >= 0

\* C24 (as claimed): ExtractXMPData returns the bytes after the first marker
\* up to and including the first closing tag after it, none added and none
\* removed, and an error when the marker or the closing tag is absent.
C24_ExactPayload ==
    (fnArg.f = "ExtractXMPData" /\ fnOut # <<>>) =>
        IF XmpComplete(fnArg.data)
        THEN fnOut[1].err = NoErr /\ fnOut[1].out = XmpPayload(fnArg.data)
        ELSE fnOut[1].err # NoErr

\* the text of the first HdrPlusMakernote="..." of a document, read off its
\* parts
RawOf(doc) ==
    IF doc.decoy THEN <<122, 122>> ELSE IF doc.quote = 34 THEN doc.v ELSE <<>>

\* C25 (as claimed): DecodeXMPMeta sets HdrPlusMakerNote to the text of the
\* first HdrPlusMakernote="..." of the unparsed input, with no entity
\* decoded, whatever the XML parser produced and also when xml.Unmarshal
\* fails.
C25_RawAttribute ==
    (fnArg.f = "DecodeXMPMeta" /\ fnOut # <<>>) =>
        fnOut[1].HdrPlusMakerNote = RawOf(fnArg.doc)

=============================================================================
